---- MODULE Spec2Model ----
EXTENDS Integers, Sequences, FiniteSets, TLC

(***************************************************************************)
(* Two-leg position engine, paper/live brokers and multi-asset risk gate   *)
(* of trading-bot-platform.                                                *)
(*                                                                         *)
(* Units.  The source computes in IEEE doubles; the model computes in      *)
(* integers on a grid on which every product and quotient the code forms   *)
(* is exact:                                                               *)
(*   price, ATR      : ticks of 0.25 USD      (100 USD = 400)              *)
(*   quantity        : 1/21 BTC               (1 BTC   = 21)               *)
(*   quote amounts   : price tick * quantity unit = 1/84 USD               *)
(*   multipliers     : rationals [num, den]                                *)
(***************************************************************************)

VARIABLES
    broker,        \* which Broker implementation the bot was built with
    config,        \* broker configuration fixed at construction
    legs,          \* the caller's PositionLeg[] of one asset
    account,       \* PaperBroker.account
    tradeHistory,  \* PaperBroker.tradeHistory
    now,           \* wall clock (Date.now(), candle and signal timestamps)
    nextId,        \* number of ids handed out by generatePositionId
    last,          \* the last broker call: operation, leg argument, outcome
    state,         \* MultiAssetBotState.assetPositions
    managerConfig, \* MultiAssetManagerConfig
    gate,          \* the last risk-gate call: inputs and result
    cb,            \* CircuitBreaker.state
    cbConfig,      \* CircuitBreaker.config
    cbOut,         \* the last CircuitBreaker call and what it returned
    jupConfig,     \* JupiterClient.config
    jup,           \* the last JupiterClient call: inputs and result
    flow,          \* the LiveBroker.openPosition call in progress
    called,        \* the last direct call of a function or getter: arguments, result
    balanceCalls,  \* solana/balances: mintDecimalsCache and the getTokenBalance calls
    files          \* the state file, its temp file and the StateManagers saving to it

vars == <<broker, config, legs, account, tradeHistory, now, nextId, last,
          state, managerConfig, gate, cb, cbConfig, cbOut, jupConfig, jup, flow, called,
          balanceCalls, files>>

brokerVars == <<broker, config, legs, account, tradeHistory, last>>
gateVars == <<state, managerConfig, gate>>
breakerVars == <<cb, cbConfig, cbOut>>
\* The variables of the components that neither a broker nor the risk gate touches.
liveVars == <<jupConfig, jup, flow>>
asyncVars == <<balanceCalls, files>>
otherVars == <<breakerVars, liveVars, called, asyncVars>>

----------------------------------------------------------------------------
(* Bounds of the model *)

MaxPositions == 2
MaxFills == 1
MaxTrades == 3
MaxCalls == 3
MaxSaves == 2

(* Inputs *)

Prices == {400, 420, 440}
EntryPrices == {400}
ATRs == {8, 40}
SignalTypes == {"LONG", "SHORT", "NONE"}
SlippageChoices == {0}
\* Clock readings and candle timestamps.
Timestamps == {1, 2}
\* The cycle inputs that take one position through its states.
CyclePrices == {440}
CycleATRs == {40}
\* Prices that take a position from open to half closed to closed.
GatePrices == {400, 440}

----------------------------------------------------------------------------
(* Values *)

undefined == -1

tradeLegUsdc == 8400
tpMultiplier == [num |-> 1, den |-> 1]
trailMultiplier == [num |-> 5, den |-> 2]
breakEvenLockMultiplier == [num |-> 1, den |-> 4]

Times(x, m) == (x * m.num) \div m.den

Max(a, b) == IF a >= b THEN a ELSE b

----------------------------------------------------------------------------
(* indicators/atr *)

\* Variant: the take-profit distance taken from the stop multiplier.
calculateATRLevels_swapped(entryPrice, atr, tpMult, stopMult) ==
    [takeProfitPrice |-> entryPrice + Times(atr, stopMult),
     initialStopPrice |-> entryPrice - Times(atr, tpMult),
     atrDistance |-> atr]

calculateATRLevels(entryPrice, atr, tpMult, stopMult) ==
    [takeProfitPrice |-> entryPrice + Times(atr, tpMult),
     initialStopPrice |-> entryPrice - Times(atr, stopMult),
     atrDistance |-> atr]

\* Variant: the recomputed stop returned without the max against the old one.
updateTrailingStop_nomax(highestPrice, currentStop, atr, multiplier) ==
    highestPrice - Times(atr, multiplier)

updateTrailingStop(highestPrice, currentStop, atr, multiplier) ==
    LET newStop == highestPrice - Times(atr, multiplier)
    IN  Max(newStop, currentStop)

----------------------------------------------------------------------------
(* strategy/position *)

generateLegId(type, n) == <<type, n>>

generatePositionId(n) == n

\* createTwoLegPosition for a LONG signal; n is the fresh random suffix.
\* The two legs createTwoLegPosition builds from a LONG signal.
twoLegs(signal, usdcAmount, tpMult, trailMult, n) ==
    LET entryPrice == signal.price
        positionId == generatePositionId(n)
        levels == calculateATRLevels(entryPrice, signal.atr, tpMult, trailMult)
        quantity == usdcAmount \div entryPrice
        tpLeg == [id |-> generateLegId("TP", n),
                  positionId |-> positionId,
                  type |-> "TP",
                  entryPrice |-> entryPrice,
                  quantity |-> quantity,
                  entryTime |-> signal.timestamp,
                  targetPrice |-> levels.takeProfitPrice,
                  trailingStop |-> undefined,
                  highestPrice |-> undefined,
                  status |-> "OPEN",
                  closePrice |-> undefined,
                  closeTime |-> undefined,
                  closeReason |-> "",
                  btcMint |-> ""]
        runnerLeg == [id |-> generateLegId("RUNNER", n),
                      positionId |-> positionId,
                      type |-> "RUNNER",
                      entryPrice |-> entryPrice,
                      quantity |-> quantity,
                      entryTime |-> signal.timestamp,
                      targetPrice |-> undefined,
                      trailingStop |-> undefined,
                      highestPrice |-> entryPrice,
                      status |-> "OPEN",
                      closePrice |-> undefined,
                      closeTime |-> undefined,
                      closeReason |-> "",
                      btcMint |-> ""]
    IN  <<tpLeg, runnerLeg>>

\* What a caller gets when createTwoLegPosition throws.
Thrown == <<[error |-> "Can only create positions from LONG signals"]>>

createTwoLegPosition_anySignal(signal, usdcAmount, tpMult, trailMult, n) ==
    twoLegs(signal, usdcAmount, tpMult, trailMult, n)

createTwoLegPosition(signal, usdcAmount, tpMult, trailMult, n) ==
    IF signal.type # "LONG" THEN Thrown
    ELSE twoLegs(signal, usdcAmount, tpMult, trailMult, n)

tpJustClosed(ls, currentPrice) ==
    \E i \in 1..Len(ls) :
        /\ ls[i].type = "TP"
        /\ ls[i].status = "OPEN"
        /\ currentPrice >= (IF ls[i].targetPrice = undefined THEN 0 ELSE ls[i].targetPrice)

updateTP(leg, currentPrice, t) ==
    IF leg.targetPrice # undefined /\ currentPrice >= leg.targetPrice
    THEN [leg EXCEPT !.status = "CLOSED",
                     !.closePrice = leg.targetPrice,
                     !.closeTime = t,
                     !.closeReason = "TP target hit"]
    ELSE leg

\* Variant: the stop activated at plain break-even, without the lock distance.
activationStop_nolock(leg, justClosed, currentATR, lockMult) ==
    IF justClosed /\ leg.trailingStop = undefined
    THEN leg.entryPrice
    ELSE leg.trailingStop

\* Variant: the stop activated at twice the lock distance.
activationStop_twice(leg, justClosed, currentATR, lockMult) ==
    IF justClosed /\ leg.trailingStop = undefined
    THEN leg.entryPrice + 2 * Times(currentATR, lockMult)
    ELSE leg.trailingStop

activationStop(leg, justClosed, currentATR, lockMult) ==
    IF justClosed /\ leg.trailingStop = undefined
    THEN leg.entryPrice + Times(currentATR, lockMult)
    ELSE leg.trailingStop

updateRUNNER(leg, justClosed, currentPrice, currentATR, trailMult, lockMult, t) ==
    LET stop0 == activationStop(leg, justClosed, currentATR, lockMult)
        base == IF leg.highestPrice = undefined \/ leg.highestPrice = 0
                THEN leg.entryPrice ELSE leg.highestPrice
        newHighest == Max(base, currentPrice)
        updatedLeg == [leg EXCEPT !.trailingStop = stop0, !.highestPrice = newHighest]
    IN  IF stop0 = undefined THEN updatedLeg
        ELSE LET newStop == updateTrailingStop(newHighest, stop0, currentATR, trailMult)
             IN  IF currentPrice <= newStop
                 THEN [updatedLeg EXCEPT !.trailingStop = newStop,
                                         !.status = "CLOSED",
                                         !.closePrice = newStop,
                                         !.closeTime = t,
                                         !.closeReason = "Trailing stop hit"]
                 ELSE [updatedLeg EXCEPT !.trailingStop = newStop]

updatePositions(ls, currentPrice, currentATR, trailMult, lockMult, t) ==
    LET justClosed == tpJustClosed(ls, currentPrice)
    IN  [i \in 1..Len(ls) |->
            IF ls[i].status = "CLOSED" THEN ls[i]
            ELSE IF ls[i].type = "TP" THEN updateTP(ls[i], currentPrice, t)
            ELSE IF ls[i].type = "RUNNER"
                 THEN updateRUNNER(ls[i], justClosed, currentPrice, currentATR,
                                   trailMult, lockMult, t)
            ELSE ls[i]]

getOpenLegs(ls) == SelectSeq(ls, LAMBDA l : l.status = "OPEN")

getClosedLegs(ls) == SelectSeq(ls, LAMBDA l : l.status = "CLOSED")

\* Variant: every RUNNER leg closed by the trim, whatever its status.
closeRunnersOnTrimSignal_all(ls, signal) ==
    IF signal.type # "SHORT" THEN ls
    ELSE [i \in 1..Len(ls) |->
            IF ls[i].type = "RUNNER"
            THEN [ls[i] EXCEPT !.status = "CLOSED",
                               !.closePrice = signal.price,
                               !.closeTime = signal.timestamp,
                               !.closeReason = "Trim signal (MFI < 70)"]
            ELSE ls[i]]

\* Variant: the trim closes every OPEN leg, TP legs included.
closeRunnersOnTrimSignal_tp(ls, signal) ==
    IF signal.type # "SHORT" THEN ls
    ELSE [i \in 1..Len(ls) |->
            IF ls[i].status = "OPEN"
            THEN [ls[i] EXCEPT !.status = "CLOSED",
                               !.closePrice = signal.price,
                               !.closeTime = signal.timestamp,
                               !.closeReason = "Trim signal (MFI < 70)"]
            ELSE ls[i]]

closeRunnersOnTrimSignal(ls, signal) ==
    IF signal.type # "SHORT" THEN ls
    ELSE [i \in 1..Len(ls) |->
            IF ls[i].type = "RUNNER" /\ ls[i].status = "OPEN"
            THEN [ls[i] EXCEPT !.status = "CLOSED",
                               !.closePrice = signal.price,
                               !.closeTime = signal.timestamp,
                               !.closeReason = "Trim signal (MFI < 70)"]
            ELSE ls[i]]

----------------------------------------------------------------------------
(* Records of the model *)

Signal(type, price, atr, t) ==
    [type |-> type, timestamp |-> t, price |-> price, atr |-> atr]

Candle(close, t) == [timestamp |-> t, close |-> close]

NoCalls ==
    [balance |-> 0, quote |-> 0, validate |-> 0, build |-> 0, send |-> 0,
     balanceMints |-> {}, quoteMints |-> {}]

AddCalls(a, b) ==
    [balance |-> a.balance + b.balance, quote |-> a.quote + b.quote,
     validate |-> a.validate + b.validate, build |-> a.build + b.build,
     send |-> a.send + b.send,
     balanceMints |-> a.balanceMints \cup b.balanceMints,
     quoteMints |-> a.quoteMints \cup b.quoteMints]

\* What `last` keeps of a broker call: the operation, the type of the signal
\* it was given, the status and recorded close price of the leg handed to
\* closeLeg (legMint: the btcMint persisted on that leg, when the LiveBroker
\* closes it), the network calls made, and the kind of value returned.
Call(op, sigType, status, closePrice, calls, ret) ==
    [op |-> op, sigType |-> sigType, legStatus |-> status,
     legClosePrice |-> closePrice, legMint |-> "", calls |-> calls, ret |-> ret]

NoOp == Call("init", "NONE", "", undefined, NoCalls, "void")

\* A reason string of canAssetTrade: its wording and the two numbers in it.
Reason(kind, n, max) == [kind |-> kind, n |-> n, max |-> max]

NoReason == Reason("", 0, 0)

\* The last query of the risk gate and what it returned; forgotten when the
\* state or the clock changes.
NoGate == [op |-> "init", asset |-> "", time |-> 0, canTrade |-> FALSE,
           reason |-> NoReason, total |-> undefined]

----------------------------------------------------------------------------
(* execution/PaperBroker *)

\* Variant: slippage that moves the fill in the trader's favour.
applySlippage_favourable(price, isBuy) ==
    IF isBuy
    THEN (price * (10000 - config.slippageBps)) \div 10000
    ELSE (price * (10000 + config.slippageBps)) \div 10000

\* applySlippage: price * (1 + slippageBps / 10000) for a buy and
\* price * (1 - slippageBps / 10000) for a sell.  The inputs are chosen so
\* that the product is a whole number of ticks.
applySlippage(price, isBuy) ==
    IF isBuy
    THEN (price * (10000 + config.slippageBps)) \div 10000
    ELSE (price * (10000 - config.slippageBps)) \div 10000

\* The reference price closeLeg fills at, before slippage.
closeReferencePrice(leg, candle) == candle.close

\* Variant: closeLeg without the already-closed guard.
PaperCloseLeg_noguard(st, leg, candle) ==
    LET fillPrice == applySlippage(closeReferencePrice(leg, candle), FALSE)
        usdcReceived == leg.quantity * fillPrice
    IN  [account |->
            [st.account EXCEPT !.btcBalance = @ - leg.quantity,
                               !.usdcBalance = @ + usdcReceived],
         tradeHistory |-> Append(st.tradeHistory,
            [timestamp |-> candle.timestamp,
             action |-> IF leg.type = "TP" THEN "CLOSE_TP" ELSE "CLOSE_RUNNER",
             price |-> fillPrice,
             usdcAmount |-> usdcReceived,
             btcAmount |-> 0 - leg.quantity,
             slippage |-> candle.close - fillPrice])]

\* PaperBroker.closeLeg on the ledger st = [account, tradeHistory].
PaperCloseLeg(st, leg, candle) ==
    IF leg.status = "CLOSED" THEN st
    ELSE LET fillPrice == applySlippage(closeReferencePrice(leg, candle), FALSE)
             usdcReceived == leg.quantity * fillPrice
         IN  [account |->
                 [st.account EXCEPT !.btcBalance = @ - leg.quantity,
                                    !.usdcBalance = @ + usdcReceived],
              tradeHistory |-> Append(st.tradeHistory,
                 [timestamp |-> candle.timestamp,
                  action |-> IF leg.type = "TP" THEN "CLOSE_TP" ELSE "CLOSE_RUNNER",
                  price |-> fillPrice,
                  usdcAmount |-> usdcReceived,
                  btcAmount |-> 0 - leg.quantity,
                  slippage |-> candle.close - fillPrice])]

\* The leg the close loops hand to closeLeg for index i.
legToClose(before, after, i) == after[i]

\* The loop of updateAndClosePositions: closeLeg for every index that went
\* from OPEN to CLOSED, in list order.
RECURSIVE PaperCloseLoop(_, _, _, _, _)
PaperCloseLoop(st, before, after, candle, i) ==
    IF i > Len(after) THEN st
    ELSE LET wasOpen == before[i].status = "OPEN"
             nowClosed == after[i].status = "CLOSED"
             st2 == IF wasOpen /\ nowClosed
                    THEN PaperCloseLeg(st, legToClose(before, after, i), candle)
                    ELSE st
         IN  PaperCloseLoop(st2, before, after, candle, i + 1)

\* The loop of trimRunners: as above, RUNNER legs only.
RECURSIVE PaperTrimLoop(_, _, _, _, _)
PaperTrimLoop(st, before, after, candle, i) ==
    IF i > Len(after) THEN st
    ELSE LET wasOpen == before[i].status = "OPEN"
             nowClosed == after[i].status = "CLOSED"
             st2 == IF wasOpen /\ nowClosed /\ after[i].type = "RUNNER"
                    THEN PaperCloseLeg(st, legToClose(before, after, i), candle)
                    ELSE st
         IN  PaperTrimLoop(st2, before, after, candle, i + 1)

\* Number of executed closes in a trade history.
Fills(h) == Cardinality({i \in 1..Len(h) : h[i].action # "OPEN_POSITION"})

Ledger == [account |-> account, tradeHistory |-> tradeHistory]

insufficient_orEqual(balance, totalCost) == balance <= totalCost

\* openPosition's balance test.
insufficient(balance, totalCost) == balance < totalCost

PaperOpenPosition(sigType, close, atr) ==
    /\ broker = "paper"
    /\ nextId < MaxPositions
    /\ LET signal == Signal(sigType, close, atr, now)
           candle == Candle(close, now)
           totalCost == tradeLegUsdc * 2
           rejected == signal.type # "LONG" \/ insufficient(account.usdcBalance, totalCost)
           fillPrice == applySlippage(candle.close, TRUE)
           newLegs == createTwoLegPosition([signal EXCEPT !.price = fillPrice],
                          tradeLegUsdc, tpMultiplier, trailMultiplier, nextId + 1)
           totalBtc == newLegs[1].quantity + newLegs[2].quantity
       IN  IF rejected
           THEN /\ last' = Call("openPosition", sigType, "", undefined, NoCalls, "null")
                /\ UNCHANGED <<legs, account, tradeHistory, nextId>>
           ELSE /\ last' = Call("openPosition", sigType, "", undefined, NoCalls, "legs")
                /\ legs' = legs \o newLegs
                /\ account' = [account EXCEPT !.usdcBalance = @ - totalCost,
                                              !.btcBalance = @ + totalBtc]
                /\ tradeHistory' = Append(tradeHistory,
                       [timestamp |-> candle.timestamp,
                        action |-> "OPEN_POSITION",
                        price |-> fillPrice,
                        usdcAmount |-> 0 - totalCost,
                        btcAmount |-> totalBtc,
                        slippage |-> fillPrice - candle.close])
                /\ nextId' = nextId + 1
    /\ UNCHANGED <<broker, config, now>>
    /\ UNCHANGED gateVars
    /\ UNCHANGED otherVars

PaperCloseLegCall(leg, close) ==
    /\ broker = "paper"
    /\ leg.status = "OPEN" => Fills(tradeHistory) < MaxFills
    /\ LET st == PaperCloseLeg(Ledger, leg, Candle(close, now))
       IN  /\ account' = st.account
           /\ tradeHistory' = st.tradeHistory
    /\ last' = Call("closeLeg", "NONE", leg.status, leg.closePrice, NoCalls, "void")
    /\ UNCHANGED <<broker, config, legs, now, nextId>>
    /\ UNCHANGED gateVars
    /\ UNCHANGED otherVars

PaperUpdateAndClosePositions(close, atr) ==
    /\ broker = "paper"
    /\ legs # <<>>
    /\ LET candle == Candle(close, now)
           updatedLegs == updatePositions(legs, candle.close, atr, trailMultiplier,
                                          breakEvenLockMultiplier, now)
           st == PaperCloseLoop(Ledger, legs, updatedLegs, candle, 1)
       IN  /\ legs' = updatedLegs
           /\ account' = st.account
           /\ tradeHistory' = st.tradeHistory
    /\ last' = Call("updateAndClosePositions", "NONE", "", undefined, NoCalls, "legs")
    /\ UNCHANGED <<broker, config, now, nextId>>
    /\ UNCHANGED gateVars
    /\ UNCHANGED otherVars

PaperTrimRunners(sigType, close) ==
    /\ broker = "paper"
    /\ legs # <<>>
    /\ LET signal == Signal(sigType, close, 0, now)
           candle == Candle(close, now)
           trimmedLegs == closeRunnersOnTrimSignal(legs, signal)
           st == IF signal.type # "SHORT" THEN Ledger
                 ELSE PaperTrimLoop(Ledger, legs, trimmedLegs, candle, 1)
       IN  /\ legs' = trimmedLegs
           /\ account' = st.account
           /\ tradeHistory' = st.tradeHistory
    /\ last' = Call("trimRunners", sigType, "", undefined, NoCalls, "legs")
    /\ UNCHANGED <<broker, config, now, nextId>>
    /\ UNCHANGED gateVars
    /\ UNCHANGED otherVars

----------------------------------------------------------------------------
(* execution/LiveBroker.  The network is the environment: env names the     *)
(* first step of the swap protocol that fails ("ok" when none does), the     *)
(* number of sign/send/confirm attempts made, and the quoted output.         *)

maxRetries == 3

CloseEnvs(leg, close) ==
    LET out == leg.quantity * close
    IN  {[failAt |-> f, attempts |-> 0, outAmount |-> 0] : f \in {"balance", "quote"}}
        \cup {[failAt |-> f, attempts |-> 0, outAmount |-> out] : f \in {"validate", "build"}}
        \cup {[failAt |-> "send", attempts |-> maxRetries, outAmount |-> out]}
        \cup {[failAt |-> "ok", attempts |-> a, outAmount |-> out] : a \in 1..maxRetries}

\* Calls made by a swap protocol run that fails first at env.failAt;
\* nQuote is the number of quote requests of the quote step, balanceMints
\* the BTC mints handed to the balance check and quoteMints those handed to
\* the quote step.
ProtocolCalls(env, nQuote, balanceMints, quoteMints) ==
    [balance |-> 1,
     quote |-> IF env.failAt = "balance" THEN 0 ELSE nQuote,
     validate |-> IF env.failAt \in {"balance", "quote"} THEN 0 ELSE 1,
     build |-> IF env.failAt \in {"balance", "quote", "validate"} THEN 0 ELSE 1,
     send |-> IF env.failAt \in {"send", "ok"} THEN env.attempts ELSE 0,
     balanceMints |-> balanceMints,
     quoteMints |-> IF env.failAt = "balance" THEN {} ELSE quoteMints]

closeMint_default(leg) ==
    IF config.cbBtcMint # "" THEN config.cbBtcMint
    ELSE IF config.wbtcMint # "" THEN config.wbtcMint
    ELSE leg.btcMint

closeMint(leg) ==
    IF leg.btcMint # "" THEN leg.btcMint
    ELSE IF config.cbBtcMint # "" THEN config.cbBtcMint
    ELSE config.wbtcMint

\* LiveBroker.closeLeg: the calls it makes and what it returns.
LiveCloseLeg(leg, env) ==
    IF leg.status = "CLOSED"
    THEN [calls |-> NoCalls, ret |-> "void"]
    ELSE IF closeMint(leg) = ""
    THEN [calls |-> NoCalls, ret |-> "void"]
    ELSE IF env.failAt # "ok"
    THEN [calls |-> ProtocolCalls(env, 1, {closeMint(leg)}, {closeMint(leg)}),
          ret |-> "void"]
    ELSE [calls |-> ProtocolCalls(env, 1, {closeMint(leg)}, {closeMint(leg)}),
          ret |-> "result"]

OpenEnvs ==
    LET F(f, a, pr, p) == [failAt |-> f, attempts |-> a, primaryOk |-> pr, fill |-> p]
    IN  {F("balance", 0, FALSE, 0), F("quote", 0, FALSE, 0)}
        \cup {F(f, 0, pr, p) : f \in {"validate", "build"}, pr \in BOOLEAN, p \in EntryPrices}
        \cup {F("send", maxRetries, pr, p) : pr \in BOOLEAN, p \in EntryPrices}
        \cup {F("ok", a, pr, p) : a \in 1..maxRetries, pr \in BOOLEAN, p \in EntryPrices}

\* getQuoteUsdcToBtc: the mint whose quote was accepted and the requests made.
openQuote(env) ==
    IF config.cbBtcMint # "" /\ env.primaryOk /\ env.failAt # "quote"
    THEN [btcMint |-> config.cbBtcMint, requests |-> 1, mints |-> {config.cbBtcMint}]
    ELSE [btcMint |-> config.wbtcMint,
          requests |-> IF config.cbBtcMint # "" THEN 2 ELSE 1,
          mints |-> {config.cbBtcMint, config.wbtcMint} \ {""}]

LiveOpenPosition(sigType, close, atr, env) ==
    /\ broker = "live"
    /\ nextId < MaxPositions
    /\ LET signal == Signal(sigType, close, atr, now)
           totalUsdc == tradeLegUsdc * 2
           q == openQuote(env)
           btcBought == totalUsdc \div env.fill
           avgPrice == totalUsdc \div btcBought
           createdLegs == createTwoLegPosition([signal EXCEPT !.price = avgPrice],
                              tradeLegUsdc, tpMultiplier, trailMultiplier, nextId + 1)
           newLegs == [i \in 1..2 |-> [createdLegs[i] EXCEPT !.btcMint = q.btcMint]]
       IN  IF signal.type # "LONG"
           THEN /\ last' = Call("openPosition", sigType, "", undefined, NoCalls, "null")
                /\ UNCHANGED <<legs, nextId>>
           ELSE IF env.failAt # "ok"
           THEN /\ last' = Call("openPosition", sigType, "", undefined,
                                ProtocolCalls(env, q.requests,
                                    {config.cbBtcMint, config.wbtcMint}, q.mints), "null")
                /\ UNCHANGED <<legs, nextId>>
           ELSE /\ last' = Call("openPosition", sigType, "", undefined,
                                ProtocolCalls(env, q.requests,
                                    {config.cbBtcMint, config.wbtcMint}, q.mints), "legs")
                /\ legs' = legs \o newLegs
                /\ nextId' = nextId + 1
    /\ UNCHANGED <<broker, config, account, tradeHistory, now>>
    /\ UNCHANGED gateVars
    /\ UNCHANGED otherVars

LiveCloseLegCall(leg, env) ==
    /\ broker = "live"
    /\ LET r == LiveCloseLeg(leg, env)
       IN  last' = [Call("closeLeg", "NONE", leg.status, leg.closePrice, r.calls, r.ret)
                      EXCEPT !.legMint = leg.btcMint]
    /\ UNCHANGED <<broker, config, legs, account, tradeHistory, now, nextId>>
    /\ UNCHANGED gateVars
    /\ UNCHANGED otherVars

\* Indices whose close the loop hands to closeLeg and that pass its
\* already-closed guard: the only calls whose outcome the network decides.
LiveExecuted(before, after, runnersOnly) ==
    {i \in 1..Len(after) :
        /\ before[i].status = "OPEN"
        /\ after[i].status = "CLOSED"
        /\ runnersOnly => after[i].type = "RUNNER"
        /\ legToClose(before, after, i).status # "CLOSED"}

RECURSIVE LiveLoopCalls(_, _, _, _, _)
LiveLoopCalls(before, after, envs, todo, acc) ==
    IF todo = {} THEN acc
    ELSE LET i == CHOOSE j \in todo : \A k \in todo : j <= k
         IN  LiveLoopCalls(before, after, envs, todo \ {i},
                 AddCalls(acc, LiveCloseLeg(legToClose(before, after, i), envs[i]).calls))

LiveUpdateAndClosePositions(close, atr) ==
    /\ broker = "live"
    /\ legs # <<>>
    /\ LET updatedLegs == updatePositions(legs, close, atr, trailMultiplier,
                                          breakEvenLockMultiplier, now)
           todo == LiveExecuted(legs, updatedLegs, FALSE)
       IN  /\ legs' = updatedLegs
           /\ \E envs \in [todo -> UNION {CloseEnvs(updatedLegs[i], close) : i \in todo}] :
                last' = Call("updateAndClosePositions", "NONE", "", undefined,
                             LiveLoopCalls(legs, updatedLegs, envs, todo, NoCalls), "legs")
    /\ UNCHANGED <<broker, config, account, tradeHistory, now, nextId>>
    /\ UNCHANGED gateVars
    /\ UNCHANGED otherVars

LiveTrimRunners(sigType, close) ==
    /\ broker = "live"
    /\ legs # <<>>
    /\ LET signal == Signal(sigType, close, 0, now)
           trimmedLegs == closeRunnersOnTrimSignal(legs, signal)
           todo == IF signal.type # "SHORT" THEN {}
                   ELSE LiveExecuted(legs, trimmedLegs, TRUE)
       IN  /\ legs' = trimmedLegs
           /\ \E envs \in [todo -> UNION {CloseEnvs(trimmedLegs[i], close) : i \in todo}] :
                last' = Call("trimRunners", sigType, "", undefined,
                             LiveLoopCalls(legs, trimmedLegs, envs, todo, NoCalls), "legs")
    /\ UNCHANGED <<broker, config, account, tradeHistory, now, nextId>>
    /\ UNCHANGED gateVars
    /\ UNCHANGED otherVars

----------------------------------------------------------------------------
(* The bot: a broker, the caller's leg list, a clock *)

initialBtcBalance == 0

\* Legs a caller can hand to closeLeg: a leg of its list, or an OPEN leg of
\* its list on which a close price has been recorded.
RecordedClosePrices == {420}

CloseInputs ==
    {legs[i] : i \in 1..Len(legs)}
    \cup {[legs[i] EXCEPT !.closePrice = cp] :
            i \in {j \in 1..Len(legs) : legs[j].status = "OPEN"},
            cp \in RecordedClosePrices}

Tick ==
    /\ \E t \in Timestamps : t > now /\ now' = t
    /\ UNCHANGED <<broker, config, legs, account, tradeHistory, nextId, last>>
    /\ UNCHANGED gateVars
    /\ UNCHANGED otherVars

GateIdle ==
    /\ state = <<>>
    /\ managerConfig = [maxPositionsPerAsset |-> 0, maxTotalPositions |-> 0,
                        minTimeBetweenTradesMs |-> 0]
    /\ gate = NoGate

\* No CircuitBreaker constructed.
NoBreakerCall == [op |-> "init", allowed |-> FALSE, valid |-> FALSE, reason |-> NoReason]

BreakerIdle ==
    /\ cb = [dailyPnl |-> 0, consecutiveLosses |-> 0, tradesExecutedToday |-> 0,
             lastTradeTimestamp |-> 0, tripped |-> FALSE, tripReason |-> NoReason,
             resetDate |-> 0]
    /\ cbConfig = [maxDailyLossPct |-> 0, maxConsecutiveLosses |-> 0, maxDailyTrades |-> 0,
                   minTimeBetweenTradesMs |-> 0, maxPriceDeviationPct |-> 0]
    /\ cbOut = NoBreakerCall

\* null, and a QuoteResponse.  priceImpactPct is in hundredths of a percent.
NoQuote == [isNull |-> TRUE, inputMint |-> "", outputMint |-> "", inAmount |-> 0,
            outAmount |-> 0, priceImpactPct |-> 0]

NoJupiterCall ==
    [op |-> "init", api |-> <<>>, original |-> NoQuote, fresh |-> NoQuote,
     maxDegradationPct |-> 0, quote |-> NoQuote, btcMint |-> "", requests |-> <<>>,
     valid |-> FALSE]

NoFlow ==
    [pc |-> "idle", signal |-> [type |-> "NONE", price |-> 0, atr |-> 0, timestamp |-> 0],
     quote |-> NoQuote, btcMint |-> "", attempt |-> 0, slept |-> 0, log |-> <<>>]

\* No JupiterClient constructed and no openPosition call in progress.
LiveIdle ==
    /\ jupConfig = [usdcMint |-> "", cbBtcMint |-> "", wbtcMint |-> "",
                    maxPriceImpactBps |-> 0]
    /\ jup = NoJupiterCall
    /\ flow = NoFlow

\* No function called directly yet.
NoCall == [op |-> "init", sigType |-> "NONE", price |-> 0, isBuy |-> FALSE, value |-> 0,
          throws |-> FALSE, list |-> <<>>, alias |-> FALSE, args |-> <<>>,
          pc |-> "idle", caller |-> "", success |-> FALSE]

\* solana/balances at module load: mintDecimalsCache is empty and no call of
\* getTokenBalance has been made.  getMint counts the lookups per mint.
BalanceMints == {"usdc", "cb", "wbtc", "sol"}

NoBalanceCalls ==
    [mintDecimalsCache |-> [m \in BalanceMints |-> undefined],
     getMint |-> [m \in BalanceMints |-> 0],
     calls |-> <<>>]

\* Two StateManagers with the same filePath, in two processes; no state file
\* and no temp file yet.  Names refer to inodes (0: no such file).
Writers == {"A", "B"}

NoSnapshot == [by |-> "", n |-> 0]

NoFiles ==
    [filePath |-> 0, tempPath |-> 0, inodes |-> <<>>,
     writers |-> [w \in Writers |-> [pc |-> "idle", fd |-> 0, n |-> 0,
                                     failed |-> FALSE, renamedOther |-> FALSE]],
     completedLast |-> NoSnapshot]

AsyncIdle == balanceCalls = NoBalanceCalls /\ files = NoFiles

OthersIdle == BreakerIdle /\ LiveIdle /\ called = NoCall /\ AsyncIdle

BotInit ==
    /\ legs = <<>>
    /\ account = [usdcBalance |-> config.initialUsdcBalance,
                  btcBalance |-> initialBtcBalance]
    /\ tradeHistory = <<>>
    /\ now = 1
    /\ nextId = 0
    /\ last = NoOp
    /\ GateIdle
    /\ OthersIdle

\* A PaperBroker funded for two positions, driven cycle by cycle.
Init ==
    /\ broker = "paper"
    /\ config \in {[slippageBps |-> s, initialUsdcBalance |-> 5 * tradeLegUsdc,
                    cbBtcMint |-> "", wbtcMint |-> ""] : s \in SlippageChoices}
    /\ BotInit

Next ==
    \/ Tick
    \/ \E t \in SignalTypes, p \in EntryPrices, a \in ATRs : PaperOpenPosition(t, p, a)
    \/ \E p \in Prices, a \in ATRs : PaperUpdateAndClosePositions(p, a)
    \/ \E t \in SignalTypes, p \in CyclePrices : PaperTrimRunners(t, p)

Spec == Init /\ [][Next]_vars

\* Either broker, with closeLeg also called directly by the caller; the
\* PaperBroker is funded for one position.
CloseInit ==
    /\ broker \in {"paper", "live"}
    /\ config \in {[slippageBps |-> s, initialUsdcBalance |-> 2 * tradeLegUsdc,
                    cbBtcMint |-> c, wbtcMint |-> "wbtc"] :
                     s \in SlippageChoices, c \in {"", "cb"}}
    /\ broker = "paper" => config.cbBtcMint = ""
    /\ BotInit

CloseNext ==
    \/ \E t \in SignalTypes, p \in EntryPrices, a \in CycleATRs : PaperOpenPosition(t, p, a)
    \/ \E p \in CyclePrices, a \in CycleATRs : PaperUpdateAndClosePositions(p, a)
    \/ \E t \in SignalTypes, p \in CyclePrices : PaperTrimRunners(t, p)
    \/ \E l \in CloseInputs, p \in Prices : PaperCloseLegCall(l, p)
    \/ \E t \in SignalTypes, p \in EntryPrices, a \in CycleATRs, env \in OpenEnvs :
          LiveOpenPosition(t, p, a, env)
    \/ \E p \in CyclePrices, a \in CycleATRs : LiveUpdateAndClosePositions(p, a)
    \/ \E t \in SignalTypes, p \in CyclePrices : LiveTrimRunners(t, p)
    \/ \E l \in CloseInputs : \E env \in CloseEnvs(l, 0) : LiveCloseLegCall(l, env)

SpecClose == CloseInit /\ [][CloseNext]_vars

----------------------------------------------------------------------------
(* The brokers' open and close calls next to direct calls of                *)
(* createTwoLegPosition and of the PaperBroker's getTradeHistory, whose     *)
(* returned list the caller may then change.                                *)

getTradeHistory_alias(h) == [list |-> h, alias |-> TRUE]

\* getTradeHistory: a new array with the same records.
getTradeHistory(h) == [list |-> [i \in 1..Len(h) |-> h[i]], alias |-> FALSE]

LedgerFrame ==
    /\ UNCHANGED <<broker, config, legs, account, last, now, nextId>>
    /\ UNCHANGED gateVars
    /\ UNCHANGED breakerVars
    /\ UNCHANGED liveVars
    /\ UNCHANGED asyncVars

CreateTwoLegPosition(sigType, price, atr) ==
    /\ LET r == createTwoLegPosition(Signal(sigType, price, atr, now), tradeLegUsdc,
                                     tpMultiplier, trailMultiplier, nextId + 1)
       IN  called' = [NoCall EXCEPT !.op = "createTwoLegPosition", !.sigType = sigType,
                                    !.price = price, !.throws = (r = Thrown),
                                    !.list = IF r = Thrown THEN <<>> ELSE r]
    /\ UNCHANGED tradeHistory
    /\ LedgerFrame

GetTradeHistory ==
    /\ broker = "paper"
    /\ LET r == getTradeHistory(tradeHistory)
       IN  called' = [NoCall EXCEPT !.op = "getTradeHistory", !.list = r.list,
                                    !.alias = r.alias]
    /\ UNCHANGED tradeHistory
    /\ LedgerFrame

\* What a caller can do to an array it holds.
Mutations == {"pop", "reverse", "length = 0"}

mutate(list, m) ==
    CASE m = "pop" -> SubSeq(list, 1, Len(list) - 1)
      [] m = "reverse" -> [i \in 1..Len(list) |-> list[Len(list) + 1 - i]]
      [] m = "length = 0" -> <<>>

\* The caller changes the array getTradeHistory returned; the broker's own
\* array changes with it only if the two are the same array.
MutateReturned(m) ==
    /\ called.op = "getTradeHistory"
    /\ called.list # <<>>
    /\ called' = [called EXCEPT !.list = mutate(called.list, m)]
    /\ tradeHistory' = IF called.alias THEN mutate(called.list, m) ELSE tradeHistory
    /\ LedgerFrame

LedgerInit ==
    /\ broker \in {"paper", "live"}
    /\ config \in {[slippageBps |-> s, initialUsdcBalance |-> 2 * tradeLegUsdc,
                    cbBtcMint |-> c, wbtcMint |-> "wbtc"] :
                     s \in SlippageChoices, c \in {"", "cb"}}
    /\ broker = "paper" => config.cbBtcMint = ""
    /\ BotInit

LedgerNext ==
    \/ Tick
    \/ \E t \in SignalTypes, p \in EntryPrices, a \in CycleATRs : CreateTwoLegPosition(t, p, a)
    \/ \E t \in SignalTypes, p \in EntryPrices, a \in CycleATRs : PaperOpenPosition(t, p, a)
    \/ \E l \in CloseInputs, p \in Prices : PaperCloseLegCall(l, p)
    \/ GetTradeHistory
    \/ \E m \in Mutations : MutateReturned(m)
    \/ \E t \in SignalTypes, p \in EntryPrices, a \in CycleATRs, env \in OpenEnvs :
          LiveOpenPosition(t, p, a, env)

SpecLedger == LedgerInit /\ [][LedgerNext]_vars

----------------------------------------------------------------------------
(* The PaperBroker with slippage: fills of openPosition and closeLeg next   *)
(* to direct calls of applySlippage.                                        *)

\* slippageBps is not validated; 20000 is twice the price.
SlippageBps == {0, 5000, 20000}

ApplySlippage(price, isBuy) ==
    /\ broker = "paper"
    /\ called' = [NoCall EXCEPT !.op = "applySlippage", !.price = price,
                                !.isBuy = isBuy, !.value = applySlippage(price, isBuy)]
    /\ UNCHANGED tradeHistory
    /\ LedgerFrame

SlippageInit ==
    /\ broker = "paper"
    /\ config \in {[slippageBps |-> s, initialUsdcBalance |-> 2 * tradeLegUsdc,
                    cbBtcMint |-> "", wbtcMint |-> "wbtc"] : s \in SlippageBps}
    /\ BotInit

SlippageNext ==
    \/ Tick
    \/ \E p \in Prices, b \in BOOLEAN : ApplySlippage(p, b)
    \/ \E t \in SignalTypes, p \in EntryPrices, a \in CycleATRs : PaperOpenPosition(t, p, a)
    \/ \E l \in CloseInputs, p \in Prices : PaperCloseLegCall(l, p)

SpecSlippage == SlippageInit /\ [][SlippageNext]_vars

----------------------------------------------------------------------------
(* multi-asset/MultiAssetManager: the risk gate.  Times are in units of the *)
(* clock, and so is minTimeBetweenTradesMs.                                  *)

\* Symbols of the enabled assets, and the symbols a caller may ask about.
EnabledAssets == <<"BTC", "ETH">>
Symbols == {"BTC", "ETH", "SOL"}

initializeMultiAssetState(assets) ==
    [i \in 1..Len(assets) |->
        [asset |-> assets[i], openLegs |-> <<>>, lastSignalTime |-> 0, lastTradeTime |-> 0]]

\* Index of the asset's entry in the state, 0 when there is none.
getAssetPositions(st, assetSymbol) ==
    IF \E i \in 1..Len(st) : st[i].asset = assetSymbol
    THEN CHOOSE i \in 1..Len(st) :
            /\ st[i].asset = assetSymbol
            /\ \A j \in 1..(i - 1) : st[j].asset # assetSymbol
    ELSE 0

updateAssetPositions(st, assetSymbol, updatedLegs) ==
    LET i == getAssetPositions(st, assetSymbol)
    IN  IF i = 0 THEN st ELSE [st EXCEPT ![i].openLegs = updatedLegs]

\* Variant: open legs counted one by one.
getOpenPositionCountForAsset_legs(assetPositions) ==
    Len(getOpenLegs(assetPositions.openLegs))

getOpenPositionCountForAsset(assetPositions) ==
    LET openLegs == getOpenLegs(assetPositions.openLegs)
        positionKey(leg) == IF leg.positionId # undefined
                            THEN <<"id", leg.positionId>>
                            ELSE <<assetPositions.asset, leg.entryTime>>
    IN  Cardinality({positionKey(openLegs[i]) : i \in 1..Len(openLegs)})

RECURSIVE getTotalOpenPositionsFrom(_, _)
getTotalOpenPositionsFrom(st, i) ==
    IF i > Len(st) THEN 0
    ELSE getOpenPositionCountForAsset(st[i]) + getTotalOpenPositionsFrom(st, i + 1)

getTotalOpenPositions(st) == getTotalOpenPositionsFrom(st, 1)

\* Variant: the total limit checked before the per-asset limit.
canAssetTrade_totalFirst(st, assetSymbol, cfg, currentTime) ==
    LET i == getAssetPositions(st, assetSymbol)
    IN  IF i = 0
        THEN [canTrade |-> FALSE, reason |-> Reason("Asset not found in state", 0, 0)]
        ELSE LET assetPos == st[i]
                 assetOpenPositions == getOpenPositionCountForAsset(assetPos)
                 totalOpen == getTotalOpenPositions(st)
                 timeSinceLastTrade == currentTime - assetPos.lastTradeTime
             IN  IF totalOpen >= cfg.maxTotalPositions
                 THEN [canTrade |-> FALSE,
                       reason |-> Reason("Total positions at max", totalOpen,
                                         cfg.maxTotalPositions)]
                 ELSE IF assetOpenPositions >= cfg.maxPositionsPerAsset
                 THEN [canTrade |-> FALSE,
                       reason |-> Reason("at max positions", assetOpenPositions,
                                         cfg.maxPositionsPerAsset)]
                 ELSE IF assetPos.lastTradeTime > 0
                         /\ timeSinceLastTrade < cfg.minTimeBetweenTradesMs
                 THEN [canTrade |-> FALSE,
                       reason |-> Reason("in cooldown",
                                         cfg.minTimeBetweenTradesMs - timeSinceLastTrade, 0)]
                 ELSE [canTrade |-> TRUE, reason |-> NoReason]

canAssetTrade(st, assetSymbol, cfg, currentTime) ==
    LET i == getAssetPositions(st, assetSymbol)
    IN  IF i = 0
        THEN [canTrade |-> FALSE, reason |-> Reason("Asset not found in state", 0, 0)]
        ELSE LET assetPos == st[i]
                 assetOpenPositions == getOpenPositionCountForAsset(assetPos)
                 totalOpen == getTotalOpenPositions(st)
                 timeSinceLastTrade == currentTime - assetPos.lastTradeTime
             IN  IF assetOpenPositions >= cfg.maxPositionsPerAsset
                 THEN [canTrade |-> FALSE,
                       reason |-> Reason("at max positions", assetOpenPositions,
                                         cfg.maxPositionsPerAsset)]
                 ELSE IF totalOpen >= cfg.maxTotalPositions
                 THEN [canTrade |-> FALSE,
                       reason |-> Reason("Total positions at max", totalOpen,
                                         cfg.maxTotalPositions)]
                 ELSE IF assetPos.lastTradeTime > 0
                         /\ timeSinceLastTrade < cfg.minTimeBetweenTradesMs
                 THEN [canTrade |-> FALSE,
                       reason |-> Reason("in cooldown",
                                         cfg.minTimeBetweenTradesMs - timeSinceLastTrade, 0)]
                 ELSE [canTrade |-> TRUE, reason |-> NoReason]

recordAssetTrade(st, assetSymbol, timestamp) ==
    LET i == getAssetPositions(st, assetSymbol)
    IN  IF i = 0 THEN st
        ELSE [st EXCEPT ![i].lastTradeTime = timestamp, ![i].lastSignalTime = timestamp]

\* The legs of an asset, [] for a symbol the state does not hold.
LegsOf(st, assetSymbol) ==
    LET i == getAssetPositions(st, assetSymbol)
    IN  IF i = 0 THEN <<>> ELSE st[i].openLegs

\* The caller stores a newly opened two-leg position after the asset's legs.
StoreOpenedPosition(assetSymbol) ==
    /\ nextId < MaxPositions
    /\ LET newLegs == createTwoLegPosition(Signal("LONG", 400, 40, now), tradeLegUsdc,
                                           tpMultiplier, trailMultiplier, nextId + 1)
       IN  state' = updateAssetPositions(state, assetSymbol,
                                         LegsOf(state, assetSymbol) \o newLegs)
    /\ nextId' = IF getAssetPositions(state, assetSymbol) = 0 THEN nextId ELSE nextId + 1
    /\ gate' = NoGate
    /\ UNCHANGED <<managerConfig, now>>
    /\ UNCHANGED brokerVars
    /\ UNCHANGED otherVars

\* The caller stores the asset's legs after a position update.
StoreUpdatedPositions(assetSymbol, price, atr) ==
    /\ LegsOf(state, assetSymbol) # <<>>
    /\ state' = updateAssetPositions(state, assetSymbol,
                   updatePositions(LegsOf(state, assetSymbol), price, atr,
                                   trailMultiplier, breakEvenLockMultiplier, now))
    /\ gate' = NoGate
    /\ UNCHANGED <<managerConfig, now, nextId>>
    /\ UNCHANGED brokerVars
    /\ UNCHANGED otherVars

RecordAssetTrade(assetSymbol) ==
    /\ state' = recordAssetTrade(state, assetSymbol, now)
    /\ gate' = NoGate
    /\ UNCHANGED <<managerConfig, now, nextId>>
    /\ UNCHANGED brokerVars
    /\ UNCHANGED otherVars

CanAssetTrade(assetSymbol) ==
    /\ LET r == canAssetTrade(state, assetSymbol, managerConfig, now)
       IN  gate' = [op |-> "canAssetTrade", asset |-> assetSymbol, time |-> now,
                    canTrade |-> r.canTrade, reason |-> r.reason, total |-> undefined]
    /\ UNCHANGED <<state, managerConfig, now, nextId>>
    /\ UNCHANGED brokerVars
    /\ UNCHANGED otherVars

GetTotalOpenPositions ==
    /\ gate' = [op |-> "getTotalOpenPositions", asset |-> "", time |-> now,
                canTrade |-> FALSE, reason |-> NoReason,
                total |-> getTotalOpenPositions(state)]
    /\ UNCHANGED <<state, managerConfig, now, nextId>>
    /\ UNCHANGED brokerVars
    /\ UNCHANGED otherVars

GateTick ==
    /\ \E t \in Timestamps : t > now /\ now' = t
    /\ gate' = NoGate
    /\ UNCHANGED <<state, managerConfig, nextId>>
    /\ UNCHANGED brokerVars
    /\ UNCHANGED otherVars

\* The limits a deployment may set.
ManagerConfigs ==
    {[maxPositionsPerAsset |-> 2, maxTotalPositions |-> 3, minTimeBetweenTradesMs |-> 0],
     [maxPositionsPerAsset |-> 2, maxTotalPositions |-> 2, minTimeBetweenTradesMs |-> 2],
     [maxPositionsPerAsset |-> 1, maxTotalPositions |-> 2, minTimeBetweenTradesMs |-> 2]}

GateInit ==
    /\ broker = "none"
    /\ config = [slippageBps |-> 0, initialUsdcBalance |-> 0,
                 cbBtcMint |-> "", wbtcMint |-> ""]
    /\ legs = <<>>
    /\ account = [usdcBalance |-> 0, btcBalance |-> 0]
    /\ tradeHistory = <<>>
    /\ last = NoOp
    /\ now = 1
    /\ nextId = 0
    /\ state = initializeMultiAssetState(EnabledAssets)
    /\ managerConfig \in ManagerConfigs
    /\ gate = NoGate
    /\ OthersIdle

GateNext ==
    \/ GateTick
    \/ \E sym \in Symbols : StoreOpenedPosition(sym)
    \/ \E sym \in Symbols, p \in GatePrices, a \in CycleATRs : StoreUpdatedPositions(sym, p, a)
    \/ \E sym \in Symbols : RecordAssetTrade(sym)
    \/ \E sym \in Symbols : CanAssetTrade(sym)
    \/ GetTotalOpenPositions

SpecGate == GateInit /\ [][GateNext]_vars

----------------------------------------------------------------------------
(* filterTradableSignals on a batch of signals, and a caller that opens a   *)
(* position for every signal the filter returned.                           *)

AssetSignal(asset, type, t) == [asset |-> asset] @@ Signal(type, 400, 40, t)

\* Batches of at most two signals stamped with the current time: a LONG
\* signal on each symbol, a SHORT and a NONE signal.
Batches ==
    LET S == {AssetSignal(a, "LONG", now) : a \in Symbols}
             \cup {AssetSignal("BTC", "SHORT", now), AssetSignal("ETH", "NONE", now)}
    IN  {<<>>} \cup {<<x>> : x \in S} \cup {<<x, y>> : x \in S, y \in S}

\* Variant: signals of every type are handed to the gate.
RECURSIVE filterTradableSignals_anyType(_, _, _, _, _)
filterTradableSignals_anyType(st, signals, cfg, i, tradableSignals) ==
    IF i > Len(signals) THEN tradableSignals
    ELSE LET signal == signals[i]
         IN  IF canAssetTrade(st, signal.asset, cfg, signal.timestamp).canTrade
             THEN filterTradableSignals_anyType(st, signals, cfg, i + 1,
                                                Append(tradableSignals, signal))
             ELSE filterTradableSignals_anyType(st, signals, cfg, i + 1, tradableSignals)

\* filterTradableSignals: the loop from signal i on, with the signals pushed
\* so far.
RECURSIVE filterTradableSignals(_, _, _, _, _)
filterTradableSignals(st, signals, cfg, i, tradableSignals) ==
    IF i > Len(signals) THEN tradableSignals
    ELSE LET signal == signals[i]
         IN  IF signal.type # "LONG"
             THEN filterTradableSignals(st, signals, cfg, i + 1, tradableSignals)
             ELSE IF canAssetTrade(st, signal.asset, cfg, signal.timestamp).canTrade
             THEN filterTradableSignals(st, signals, cfg, i + 1,
                                        Append(tradableSignals, signal))
             ELSE filterTradableSignals(st, signals, cfg, i + 1, tradableSignals)

FilterFrame ==
    /\ UNCHANGED <<managerConfig, gate, now>>
    /\ UNCHANGED brokerVars
    /\ UNCHANGED <<breakerVars, liveVars, asyncVars>>

FilterTradableSignals(signals) ==
    /\ called' = [NoCall EXCEPT !.op = "filterTradableSignals", !.args = signals,
                                !.list = filterTradableSignals(state, signals,
                                                               managerConfig, 1, <<>>)]
    /\ UNCHANGED <<state, nextId>>
    /\ FilterFrame

\* The state after a position has been opened and recorded for each of the
\* signals from index i on; n is the number of positions created so far.
RECURSIVE openEach(_, _, _, _)
openEach(st, signals, i, n) ==
    IF i > Len(signals) THEN st
    ELSE LET signal == signals[i]
             newLegs == createTwoLegPosition(signal, tradeLegUsdc, tpMultiplier,
                                             trailMultiplier, n + 1)
             stored == updateAssetPositions(st, signal.asset,
                                            LegsOf(st, signal.asset) \o newLegs)
         IN  openEach(recordAssetTrade(stored, signal.asset, signal.timestamp),
                      signals, i + 1, n + 1)

\* The caller opens a position for every signal the last filter call returned.
OpenAdmitted ==
    /\ called.op = "filterTradableSignals"
    /\ called.list # <<>>
    /\ nextId + Len(called.list) <= MaxPositions
    /\ state' = openEach(state, called.list, 1, nextId)
    /\ nextId' = nextId + Len(called.list)
    /\ called' = NoCall
    /\ FilterFrame

\* The caller stores the asset's legs after a position update.
UpdateAdmitted(assetSymbol, price, atr) ==
    /\ LegsOf(state, assetSymbol) # <<>>
    /\ state' = updateAssetPositions(state, assetSymbol,
                   updatePositions(LegsOf(state, assetSymbol), price, atr,
                                   trailMultiplier, breakEvenLockMultiplier, now))
    /\ called' = NoCall
    /\ UNCHANGED nextId
    /\ FilterFrame

FilterTick ==
    /\ \E t \in Timestamps : t > now /\ now' = t
    /\ called' = NoCall
    /\ UNCHANGED <<state, nextId, managerConfig, gate>>
    /\ UNCHANGED brokerVars
    /\ UNCHANGED <<breakerVars, liveVars, asyncVars>>

FilterNext ==
    \/ FilterTick
    \/ \E b \in Batches : FilterTradableSignals(b)
    \/ OpenAdmitted
    \/ \E sym \in Symbols, p \in CyclePrices, a \in CycleATRs : UpdateAdmitted(sym, p, a)

SpecFilter == GateInit /\ [][FilterNext]_vars

----------------------------------------------------------------------------
(* execution/CircuitBreaker.  P&L and portfolio values are in USD; the      *)
(* clock is in ticks of which DayLength make one calendar day, and a date   *)
(* is the number of its day.                                                 *)

DayLength == 2

\* new Date().toISOString().split('T')[0]
dateOf(t) == (t - 1) \div DayLength

\* (x).toFixed(2) of the percentage num / den * 100, in hundredths.
pctFixed2(num, den) == (num * 10000) \div den

\* Variant: the daily counters reset on every call.
resetDaily_always(st, t) ==
    [st EXCEPT !.dailyPnl = 0, !.tradesExecutedToday = 0, !.resetDate = dateOf(t)]

\* Variant: a new day also clears the tripped state and the loss streak.
resetDaily_clearsTrip(st, t) ==
    IF dateOf(t) # st.resetDate
    THEN [st EXCEPT !.dailyPnl = 0, !.tradesExecutedToday = 0, !.resetDate = dateOf(t),
                    !.tripped = FALSE, !.tripReason = NoReason, !.consecutiveLosses = 0]
    ELSE st

resetDaily(st, t) ==
    IF dateOf(t) # st.resetDate
    THEN [st EXCEPT !.dailyPnl = 0, !.tradesExecutedToday = 0, !.resetDate = dateOf(t)]
    ELSE st

trip(st, reason) == [st EXCEPT !.tripped = TRUE, !.tripReason = reason]

\* Variant: the loss streak trips only above the limit.
checkConditions_above(st, cfg, currentPortfolioValue) ==
    IF st.dailyPnl * 100 < (0 - cfg.maxDailyLossPct) * currentPortfolioValue
    THEN trip(st, Reason("Daily loss limit exceeded",
                         pctFixed2(st.dailyPnl, currentPortfolioValue), cfg.maxDailyLossPct))
    ELSE IF st.consecutiveLosses > cfg.maxConsecutiveLosses
    THEN trip(st, Reason("Consecutive loss limit exceeded",
                         st.consecutiveLosses, cfg.maxConsecutiveLosses))
    ELSE st

\* dailyPnl / value * 100 < -maxDailyLossPct, for a positive value.
checkConditions(st, cfg, currentPortfolioValue) ==
    IF st.dailyPnl * 100 < (0 - cfg.maxDailyLossPct) * currentPortfolioValue
    THEN trip(st, Reason("Daily loss limit exceeded",
                         pctFixed2(st.dailyPnl, currentPortfolioValue), cfg.maxDailyLossPct))
    ELSE IF st.consecutiveLosses >= cfg.maxConsecutiveLosses
    THEN trip(st, Reason("Consecutive loss limit exceeded",
                         st.consecutiveLosses, cfg.maxConsecutiveLosses))
    ELSE st

\* Variant: a trade that is not a loss leaves the loss streak as it was.
recordTrade_keepsStreak(st, cfg, pnl, currentPortfolioValue, t) ==
    LET counted == [st EXCEPT !.tradesExecutedToday = @ + 1,
                              !.lastTradeTimestamp = t,
                              !.dailyPnl = @ + pnl,
                              !.consecutiveLosses = IF pnl < 0 THEN @ + 1 ELSE @]
    IN  checkConditions(counted, cfg, currentPortfolioValue)

recordTrade(st, cfg, pnl, currentPortfolioValue, t) ==
    LET counted == [st EXCEPT !.tradesExecutedToday = @ + 1,
                              !.lastTradeTimestamp = t,
                              !.dailyPnl = @ + pnl,
                              !.consecutiveLosses = IF pnl < 0 THEN @ + 1 ELSE 0]
    IN  checkConditions(counted, cfg, currentPortfolioValue)

\* Variant: the daily trade limit is looked at before the tripped state.
breakerDecision_limitFirst(st, cfg, t) ==
    IF st.tradesExecutedToday >= cfg.maxDailyTrades
    THEN [allowed |-> FALSE, reason |-> Reason("Daily trade limit reached", cfg.maxDailyTrades, 0)]
    ELSE IF st.tripped
    THEN [allowed |-> FALSE,
          reason |-> Reason("Circuit breaker tripped: " \o st.tripReason.kind,
                            st.tripReason.n, st.tripReason.max)]
    ELSE IF st.lastTradeTimestamp > 0
            /\ t - st.lastTradeTimestamp < cfg.minTimeBetweenTradesMs
    THEN [allowed |-> FALSE,
          reason |-> Reason("Cooldown period active",
                            cfg.minTimeBetweenTradesMs - (t - st.lastTradeTimestamp), 0)]
    ELSE [allowed |-> TRUE, reason |-> NoReason]

\* The checks of canTrade on the state its resetDaily call has left.
breakerDecision(st, cfg, t) ==
    IF st.tripped
    THEN [allowed |-> FALSE,
          reason |-> Reason("Circuit breaker tripped: " \o st.tripReason.kind,
                            st.tripReason.n, st.tripReason.max)]
    ELSE IF st.tradesExecutedToday >= cfg.maxDailyTrades
    THEN [allowed |-> FALSE, reason |-> Reason("Daily trade limit reached", cfg.maxDailyTrades, 0)]
    ELSE IF st.lastTradeTimestamp > 0
            /\ t - st.lastTradeTimestamp < cfg.minTimeBetweenTradesMs
    THEN [allowed |-> FALSE,
          reason |-> Reason("Cooldown period active",
                            cfg.minTimeBetweenTradesMs - (t - st.lastTradeTimestamp), 0)]
    ELSE [allowed |-> TRUE, reason |-> NoReason]

Abs(x) == IF x < 0 THEN 0 - x ELSE x

\* |current - expected| / expected * 100 > maxPriceDeviationPct
validatePrice(cfg, currentPrice, expectedPrice) ==
    IF Abs(currentPrice - expectedPrice) * 100 > cfg.maxPriceDeviationPct * expectedPrice
    THEN [valid |-> FALSE,
          reason |-> Reason("Price deviation too high",
                            pctFixed2(Abs(currentPrice - expectedPrice), expectedPrice),
                            cfg.maxPriceDeviationPct)]
    ELSE [valid |-> TRUE, reason |-> NoReason]

\* Variant: reset() also starts the day over.
reset_newDay(st) ==
    [st EXCEPT !.tripped = FALSE, !.tripReason = NoReason, !.consecutiveLosses = 0,
               !.dailyPnl = 0, !.tradesExecutedToday = 0, !.lastTradeTimestamp = 0]

reset(st) == [st EXCEPT !.tripped = FALSE, !.tripReason = NoReason, !.consecutiveLosses = 0]

\* Inputs of the breaker.
BreakerTimes == 1..4
Pnls == {-30, -10, 20}
PortfolioValues == {400, 1000}

BreakerConfigs ==
    {[maxDailyLossPct |-> 5, maxConsecutiveLosses |-> 3, maxDailyTrades |-> d,
      minTimeBetweenTradesMs |-> c, maxPriceDeviationPct |-> 5] :
        d \in {2, 10}, c \in {0, 2}}

BreakerFrame ==
    /\ UNCHANGED <<cbConfig, nextId, called, asyncVars>>
    /\ UNCHANGED liveVars
    /\ UNCHANGED brokerVars
    /\ UNCHANGED gateVars

ResetDaily ==
    /\ cb' = resetDaily(cb, now)
    /\ cbOut' = [NoBreakerCall EXCEPT !.op = "resetDaily"]
    /\ UNCHANGED now
    /\ BreakerFrame

CanTrade ==
    /\ LET st == resetDaily(cb, now)
           r == breakerDecision(st, cbConfig, now)
       IN  /\ cb' = st
           /\ cbOut' = [op |-> "canTrade", allowed |-> r.allowed, valid |-> FALSE,
                        reason |-> r.reason]
    /\ UNCHANGED now
    /\ BreakerFrame

RecordTrade(pnl, currentPortfolioValue) ==
    /\ cb.tradesExecutedToday < MaxTrades
    /\ cb' = recordTrade(cb, cbConfig, pnl, currentPortfolioValue, now)
    /\ cbOut' = [NoBreakerCall EXCEPT !.op = "recordTrade"]
    /\ UNCHANGED now
    /\ BreakerFrame

ValidatePrice(currentPrice, expectedPrice) ==
    /\ LET r == validatePrice(cbConfig, currentPrice, expectedPrice)
       IN  cbOut' = [op |-> "validatePrice", allowed |-> FALSE, valid |-> r.valid,
                     reason |-> r.reason]
    /\ UNCHANGED <<cb, now>>
    /\ BreakerFrame

Reset ==
    /\ cb' = reset(cb)
    /\ cbOut' = [NoBreakerCall EXCEPT !.op = "reset"]
    /\ UNCHANGED now
    /\ BreakerFrame

BreakerTick ==
    /\ \E t \in BreakerTimes : t > now /\ now' = t
    /\ cbOut' = NoBreakerCall
    /\ UNCHANGED cb
    /\ BreakerFrame

BreakerInit ==
    /\ broker = "none"
    /\ config = [slippageBps |-> 0, initialUsdcBalance |-> 0,
                 cbBtcMint |-> "", wbtcMint |-> ""]
    /\ legs = <<>>
    /\ account = [usdcBalance |-> 0, btcBalance |-> 0]
    /\ tradeHistory = <<>>
    /\ last = NoOp
    /\ nextId = 0
    /\ GateIdle
    /\ LiveIdle
    /\ called = NoCall
    /\ AsyncIdle
    /\ now = 1
    /\ cbConfig \in BreakerConfigs
    /\ cb = [dailyPnl |-> 0, consecutiveLosses |-> 0, tradesExecutedToday |-> 0,
             lastTradeTimestamp |-> 0, tripped |-> FALSE, tripReason |-> NoReason,
             resetDate |-> dateOf(now)]
    /\ cbOut = NoBreakerCall

BreakerNext ==
    \/ BreakerTick
    \/ ResetDaily
    \/ CanTrade
    \/ \E pnl \in Pnls, v \in PortfolioValues : RecordTrade(pnl, v)
    \/ \E c \in Prices, e \in EntryPrices : ValidatePrice(c, e)
    \/ Reset

SpecBreaker == BreakerInit /\ [][BreakerNext]_vars

----------------------------------------------------------------------------
(* JupiterClient: quotes.  Token amounts are integers ("lamports"): one     *)
(* USDC unit of the model is usdcDecimals lamports, one quantity unit is    *)
(* btcDecimals lamports.  The Jupiter API is the environment: api maps the  *)
(* requested output mint to the answer of quoteGet.                         *)

usdcDecimals == 100
btcDecimals == 100
Mints == {"cb", "wbtc"}

\* quoteGet failed or answered nothing.
NoAnswer == [isNull |-> TRUE, outAmount |-> 0, priceImpactPct |-> undefined]

getQuote(api, inputMint, outputMint, amount) ==
    LET jupQuote == api[outputMint]
    IN  IF jupQuote.isNull THEN NoQuote
        ELSE [isNull |-> FALSE, inputMint |-> inputMint, outputMint |-> outputMint,
              inAmount |-> amount, outAmount |-> jupQuote.outAmount,
              priceImpactPct |-> IF jupQuote.priceImpactPct = undefined THEN 0
                                 ELSE jupQuote.priceImpactPct]

isQuoteAcceptable_any(cfg, quote) == TRUE

isQuoteAcceptable(cfg, quote) ==
    LET maxImpactBps == cfg.maxPriceImpactBps
        impactBps == (quote.priceImpactPct * 100) \div 100
    IN  ~(impactBps > maxImpactBps)

\* The quote returned (NoQuote for null), its btcMint, and the mints requested.
getQuoteUsdcToBtc(cfg, api, usdcAmount) ==
    LET usdcLamports == usdcAmount * usdcDecimals
        cbBtcQuote == getQuote(api, cfg.usdcMint, cfg.cbBtcMint, usdcLamports)
        wbtcQuote == getQuote(api, cfg.usdcMint, cfg.wbtcMint, usdcLamports)
        tried == IF cfg.cbBtcMint # "" THEN <<cfg.cbBtcMint>> ELSE <<>>
    IN  IF cfg.cbBtcMint # "" /\ ~cbBtcQuote.isNull /\ isQuoteAcceptable(cfg, cbBtcQuote)
        THEN [quote |-> cbBtcQuote, btcMint |-> cfg.cbBtcMint, requests |-> tried]
        ELSE IF ~wbtcQuote.isNull /\ isQuoteAcceptable(cfg, wbtcQuote)
        THEN [quote |-> wbtcQuote, btcMint |-> cfg.wbtcMint,
              requests |-> Append(tried, cfg.wbtcMint)]
        ELSE [quote |-> NoQuote, btcMint |-> "", requests |-> Append(tried, cfg.wbtcMint)]

\* The double a / b of two integers: a fraction, or the special value that
\* IEEE-754 division by zero gives.
floatDiv(a, b) ==
    [kind |-> IF b # 0 THEN "finite"
              ELSE IF a > 0 THEN "Infinity"
              ELSE IF a < 0 THEN "-Infinity"
              ELSE "NaN",
     num |-> a, den |-> b]

\* x * scale > m on doubles: every comparison with NaN is false.
floatGreater(x, scale, m) ==
    CASE x.kind = "NaN" -> FALSE
      [] x.kind = "Infinity" -> TRUE
      [] x.kind = "-Infinity" -> FALSE
      [] x.kind = "finite" /\ x.den > 0 -> x.num * scale > m * x.den
      [] x.kind = "finite" /\ x.den < 0 -> x.num * scale < m * x.den

validateQuote(api, originalQuote, maxDegradationPct) ==
    LET freshQuote == getQuote(api, originalQuote.inputMint, originalQuote.outputMint,
                               originalQuote.inAmount)
        originalOut == originalQuote.outAmount
        freshOut == freshQuote.outAmount
        degradation == floatDiv(originalOut - freshOut, originalOut)
    IN  IF freshQuote.isNull THEN FALSE
        ELSE IF floatGreater(degradation, 100, maxDegradationPct) THEN FALSE
        ELSE TRUE

(* Direct calls of the JupiterClient *)

maxPriceImpactBps == 50
ImpactPcts == {undefined, 10, 50, 60}
OutAmounts == {4000, 4200}
FreshOutAmounts == {0, 4100, 4150, 4200, 4300}
OriginalOutAmounts == {0, 4200}
DegradationPcts == {1, 2}

Answers(outs) ==
    {NoAnswer} \cup {[isNull |-> FALSE, outAmount |-> o, priceImpactPct |-> i] :
                        o \in outs, i \in ImpactPcts}

JupiterConfigs ==
    {[usdcMint |-> "usdc", cbBtcMint |-> c, wbtcMint |-> "wbtc",
      maxPriceImpactBps |-> maxPriceImpactBps] : c \in {"", "cb"}}

JupiterFrame ==
    /\ UNCHANGED <<jupConfig, flow, now, nextId, called, asyncVars>>
    /\ UNCHANGED brokerVars
    /\ UNCHANGED gateVars
    /\ UNCHANGED breakerVars

GetQuoteUsdcToBtc(api, usdcAmount) ==
    /\ LET r == getQuoteUsdcToBtc(jupConfig, api, usdcAmount)
       IN  jup' = [NoJupiterCall EXCEPT !.op = "getQuoteUsdcToBtc", !.api = api,
                                        !.quote = r.quote, !.btcMint = r.btcMint,
                                        !.requests = r.requests]
    /\ JupiterFrame

ValidateQuote(originalQuote, fresh, maxDegradationPct) ==
    /\ LET api == [m \in Mints |-> fresh]
       IN  jup' = [NoJupiterCall EXCEPT
                      !.op = "validateQuote", !.original = originalQuote,
                      !.fresh = getQuote(api, originalQuote.inputMint,
                                         originalQuote.outputMint, originalQuote.inAmount),
                      !.maxDegradationPct = maxDegradationPct,
                      !.valid = validateQuote(api, originalQuote, maxDegradationPct)]
    /\ JupiterFrame

\* Quotes a caller can hold: answers of an earlier quote request.
OriginalQuotes ==
    {[isNull |-> FALSE, inputMint |-> "usdc", outputMint |-> m,
      inAmount |-> 2 * tradeLegUsdc * usdcDecimals, outAmount |-> o,
      priceImpactPct |-> 10] : m \in Mints, o \in OriginalOutAmounts}

JupiterInit ==
    /\ broker = "none"
    /\ config = [slippageBps |-> 0, initialUsdcBalance |-> 0,
                 cbBtcMint |-> "", wbtcMint |-> ""]
    /\ legs = <<>>
    /\ account = [usdcBalance |-> 0, btcBalance |-> 0]
    /\ tradeHistory = <<>>
    /\ last = NoOp
    /\ nextId = 0
    /\ now = 1
    /\ GateIdle
    /\ BreakerIdle
    /\ jupConfig \in JupiterConfigs
    /\ jup = NoJupiterCall
    /\ flow = NoFlow
    /\ called = NoCall
    /\ AsyncIdle

JupiterNext ==
    \/ \E api \in [Mints -> Answers(OutAmounts)] : GetQuoteUsdcToBtc(api, 2 * tradeLegUsdc)
    \/ \E q \in OriginalQuotes, f \in Answers(FreshOutAmounts), d \in DegradationPcts :
          ValidateQuote(q, f, d)

SpecJupiter == JupiterInit /\ [][JupiterNext]_vars

----------------------------------------------------------------------------
(* LiveBroker.openPosition, await by await.  flow.pc is the step the call   *)
(* is about to make, flow.log the requests it has made so far; the bot      *)
(* awaits the call, so nothing else runs until it has returned.             *)

\* A request made: the step, the BTC mint it was about, whether it succeeded.
Step(name, mint, ok) == [step |-> name, mint |-> mint, ok |-> ok]

Logged(log, name) == {i \in 1..Len(log) : log[i].step = name}

\* The calls of one openPosition run, in the form `last` keeps them.
LogCalls(log) ==
    [balance |-> Cardinality(Logged(log, "canTrade")),
     quote |-> Cardinality(Logged(log, "getQuote")),
     validate |-> Cardinality(Logged(log, "validateQuote")),
     build |-> Cardinality(Logged(log, "buildSwapTransaction")),
     send |-> Cardinality(Logged(log, "sendTransaction")),
     balanceMints |-> IF Logged(log, "canTrade") = {} THEN {}
                      ELSE {config.cbBtcMint, config.wbtcMint},
     quoteMints |-> {log[i].mint : i \in Logged(log, "getQuote")}]

\* The answers the API gives while a position is being opened: the primary
\* and the secondary market quote different amounts.
FlowImpactPcts == {10, 60}
FlowOutAmount(mint) == IF mint = "cb" THEN 4000 ELSE 4200
FlowAnswers(mint) ==
    {NoAnswer} \cup {[isNull |-> FALSE, outAmount |-> FlowOutAmount(mint),
                      priceImpactPct |-> i] : i \in FlowImpactPcts}
FlowApis == {[m \in Mints |-> IF m = "cb" THEN a ELSE b] :
                a \in FlowAnswers("cb"), b \in FlowAnswers("wbtc")}
FreshAnswers(quote) ==
    {NoAnswer} \cup {[isNull |-> FALSE, outAmount |-> o, priceImpactPct |-> 10] :
                        o \in {quote.outAmount, quote.outAmount - 100}}
StepOutcomes == {"ok", "fail", "throw"}
SendOutcomes == {"confirmed", "err", "throw"}

FlowFrame ==
    /\ UNCHANGED <<broker, config, account, tradeHistory, now>>
    /\ UNCHANGED <<jupConfig, jup, called, asyncVars>>
    /\ UNCHANGED gateVars
    /\ UNCHANGED breakerVars

ReturnNull_partial(log) ==
    /\ flow' = [NoFlow EXCEPT !.log = log]
    /\ last' = Call("openPosition", flow.signal.type, "", undefined, LogCalls(log), "null")
    /\ legs' = legs \o createTwoLegPosition(flow.signal, tradeLegUsdc, tpMultiplier,
                                            trailMultiplier, nextId + 1)
    /\ nextId' = nextId + 1

\* openPosition returns null: no leg is created.
ReturnNull(log) ==
    /\ flow' = [NoFlow EXCEPT !.log = log]
    /\ last' = Call("openPosition", flow.signal.type, "", undefined, LogCalls(log), "null")
    /\ UNCHANGED <<legs, nextId>>

LiveOpenStart(sigType, close, atr) ==
    /\ broker = "live"
    /\ flow.pc = "idle"
    /\ nextId < MaxPositions
    /\ LET signal == Signal(sigType, close, atr, now)
       IN  IF signal.type # "LONG"
           THEN /\ flow' = NoFlow
                /\ last' = Call("openPosition", sigType, "", undefined, NoCalls, "null")
           ELSE /\ flow' = [NoFlow EXCEPT !.pc = "canTrade", !.signal = signal]
                /\ UNCHANGED last
    /\ UNCHANGED <<legs, nextId>>
    /\ FlowFrame

\* The reserve of the wallet configuration: 10 USD.
minUsdcReserve == 840

\* What getAllBalances gives canTrade: it throws when a balance query fails,
\* else the USDC balance of the wallet.
WalletBalances ==
    {[failed |-> TRUE, usdc |-> 0]}
    \cup {[failed |-> FALSE, usdc |-> u] :
            u \in {0, 2 * tradeLegUsdc, 2 * tradeLegUsdc + minUsdcReserve - 1,
                   2 * tradeLegUsdc + minUsdcReserve, 3 * tradeLegUsdc}}

canTrade_noReserve(balances, tradeSizeUsdc, reserve) ==
    ~balances.failed /\ ~(balances.usdc < tradeSizeUsdc * 2)

\* solana/balances canTrade: the canTrade field of its result.
canTrade(balances, tradeSizeUsdc, reserve) ==
    IF balances.failed THEN FALSE
    ELSE LET totalRequired == tradeSizeUsdc * 2
         IN  ~(balances.usdc < totalRequired + reserve)

StepCanTrade(balances) ==
    /\ flow.pc = "canTrade"
    /\ LET outcome == IF canTrade(balances, tradeLegUsdc, minUsdcReserve)
                      THEN "ok" ELSE "fail"
           log == Append(flow.log, Step("canTrade", "", outcome = "ok"))
       IN  IF outcome # "ok"
           THEN ReturnNull(log)
           ELSE /\ flow' = [flow EXCEPT !.pc = "getQuote", !.log = log]
                /\ UNCHANGED <<legs, nextId, last>>
    /\ FlowFrame

StepGetQuote(api) ==
    /\ flow.pc = "getQuote"
    /\ LET totalUsdc == tradeLegUsdc * 2
           quoteResult == getQuoteUsdcToBtc(jupConfig, api, totalUsdc)
           log == flow.log \o [i \in 1..Len(quoteResult.requests) |->
                                 Step("getQuote", quoteResult.requests[i],
                                      quoteResult.requests[i] = quoteResult.btcMint)]
       IN  IF quoteResult.quote.isNull
           THEN ReturnNull(log)
           ELSE /\ flow' = [flow EXCEPT !.pc = "validateQuote", !.log = log,
                                        !.quote = quoteResult.quote,
                                        !.btcMint = quoteResult.btcMint]
                /\ UNCHANGED <<legs, nextId, last>>
    /\ FlowFrame

StepValidateQuote(fresh) ==
    /\ flow.pc = "validateQuote"
    /\ LET isQuoteValid == validateQuote([m \in Mints |-> fresh], flow.quote, 2)
           log == Append(flow.log, Step("validateQuote", flow.quote.outputMint, isQuoteValid))
       IN  IF ~isQuoteValid
           THEN ReturnNull(log)
           ELSE /\ flow' = [flow EXCEPT !.pc = "buildSwapTransaction", !.log = log]
                /\ UNCHANGED <<legs, nextId, last>>
    /\ FlowFrame

loopCondition_extra(attempt, retries) == attempt <= retries + 1

\* The condition of the for loop of sendAndConfirmVersionedTransaction.
loopCondition(attempt, retries) == attempt <= retries

StepBuildSwapTransaction(outcome) ==
    /\ flow.pc = "buildSwapTransaction"
    /\ LET log == Append(flow.log, Step("buildSwapTransaction", flow.quote.outputMint,
                                        outcome = "ok"))
       IN  IF outcome # "ok" \/ ~loopCondition(1, maxRetries)
           THEN ReturnNull(log)
           ELSE /\ flow' = [flow EXCEPT !.pc = "sendTransaction", !.log = log,
                                        !.attempt = 1]
                /\ UNCHANGED <<legs, nextId, last>>
    /\ FlowFrame

\* Wait before the next attempt, in ms.
backoff(attempt) == 2000 * attempt

legMint_default(quoteMint) ==
    IF config.cbBtcMint # "" THEN config.cbBtcMint ELSE config.wbtcMint

\* The mint written onto the created legs.
legMint(quoteMint) == quoteMint

\* Amounts of BTC a confirmed swap can deliver for a quote: the quoted
\* estimate, or what the other market quoted.
ReceivedAmounts(quote) ==
    {quote.outAmount, IF quote.outAmount = FlowOutAmount("cb")
                      THEN FlowOutAmount("wbtc") ELSE FlowOutAmount("cb")}

\* One pass of the retry loop: sign, send, confirm.  A confirmed attempt
\* ends the loop and openPosition creates the two legs; a failed attempt
\* sleeps and goes round again while attempts are left.  received is the
\* amount the confirmed transaction delivered; the call reads the quote.
StepSendTransaction(outcome, received) ==
    /\ flow.pc = "sendTransaction"
    /\ LET log == Append(flow.log, Step("sendTransaction", flow.quote.outputMint,
                                        outcome = "confirmed"))
           totalUsdc == tradeLegUsdc * 2
           btcBought == flow.quote.outAmount \div btcDecimals
           avgPrice == totalUsdc \div btcBought
           createdLegs == createTwoLegPosition([flow.signal EXCEPT !.price = avgPrice],
                              tradeLegUsdc, tpMultiplier, trailMultiplier, nextId + 1)
           newLegs == [i \in 1..2 |->
                         [createdLegs[i] EXCEPT !.btcMint = legMint(flow.btcMint)]]
       IN  IF outcome = "confirmed"
           THEN /\ flow' = [NoFlow EXCEPT !.log = log]
                /\ last' = Call("openPosition", flow.signal.type, "", undefined,
                                LogCalls(log), "legs")
                /\ legs' = legs \o newLegs
                /\ nextId' = nextId + 1
           ELSE IF loopCondition(flow.attempt + 1, maxRetries)
           THEN /\ flow' = [flow EXCEPT !.log = log, !.attempt = flow.attempt + 1,
                                        !.slept = flow.slept + backoff(flow.attempt)]
                /\ UNCHANGED <<legs, nextId, last>>
           ELSE ReturnNull(log)
    /\ FlowFrame

LiveInit ==
    /\ broker = "live"
    /\ config \in {[slippageBps |-> s, initialUsdcBalance |-> 0,
                    cbBtcMint |-> c, wbtcMint |-> "wbtc"] :
                     s \in SlippageChoices, c \in {"", "cb"}}
    /\ legs = <<>>
    /\ account = [usdcBalance |-> 0, btcBalance |-> 0]
    /\ tradeHistory = <<>>
    /\ now = 1
    /\ nextId = 0
    /\ last = NoOp
    /\ GateIdle
    /\ BreakerIdle
    /\ jupConfig = [usdcMint |-> "usdc", cbBtcMint |-> config.cbBtcMint,
                    wbtcMint |-> config.wbtcMint, maxPriceImpactBps |-> maxPriceImpactBps]
    /\ jup = NoJupiterCall
    /\ flow = NoFlow
    /\ called = NoCall
    /\ AsyncIdle

LiveNext ==
    \/ \E t \in SignalTypes, p \in EntryPrices, a \in CycleATRs : LiveOpenStart(t, p, a)
    \/ \E b \in WalletBalances : StepCanTrade(b)
    \/ \E api \in FlowApis : StepGetQuote(api)
    \/ \E f \in FreshAnswers(flow.quote) : StepValidateQuote(f)
    \/ \E o \in StepOutcomes : StepBuildSwapTransaction(o)
    \/ \E o \in SendOutcomes, r \in ReceivedAmounts(flow.quote) : StepSendTransaction(o, r)
    \/ flow.pc = "idle" /\ \E p \in CyclePrices, a \in CycleATRs :
                              LiveUpdateAndClosePositions(p, a)
    \/ flow.pc = "idle" /\ \E t \in SignalTypes, p \in CyclePrices : LiveTrimRunners(t, p)
    \/ flow.pc = "idle" /\ Tick

SpecLive == LiveInit /\ [][LiveNext]_vars

\* The retry loop goes on: every attempt returns or throws.
SpecLiveFair ==
    SpecLive /\ WF_vars(\E o \in SendOutcomes, r \in ReceivedAmounts(flow.quote) :
                            StepSendTransaction(o, r))

----------------------------------------------------------------------------
(* solana/wallet sendAndConfirmVersionedTransaction, called directly with a *)
(* retry budget or by LiveBroker.openPosition (step 5, budget 3), one pass  *)
(* of its loop at a time.  called.list is the record of the attempts made.  *)

RetryBudgets == 1..5

\* What an attempt can meet: sendTransaction throws (nothing was sent); the
\* transaction is confirmed; it is confirmed as failed (confirmation.value.err);
\* it was sent and confirmTransaction throws or times out, so that it may
\* still be included.
AttemptOutcomes == {"send throws", "confirmed", "confirmed err", "confirm throws"}

SendFrame ==
    /\ UNCHANGED <<broker, config, account, tradeHistory, now>>
    /\ UNCHANGED gateVars
    /\ UNCHANGED <<breakerVars, liveVars, asyncVars>>

SendAndConfirmVersionedTransaction(caller, retries) ==
    /\ broker = "live"
    /\ called.pc # "loop"
    /\ nextId < MaxPositions
    /\ caller = "openPosition" => retries = maxRetries
    /\ called' = [NoCall EXCEPT !.op = "sendAndConfirmVersionedTransaction",
                                !.caller = caller, !.args = <<retries>>,
                                !.value = 1,
                                !.pc = IF loopCondition(1, retries) THEN "loop"
                                       ELSE "returned"]
    /\ UNCHANGED <<legs, nextId, last>>
    /\ SendFrame

\* One pass of the loop.  After a failed attempt the function sleeps when
\* attempts are left; when none is left it returns success: false, which
\* openPosition turns into null.  On success openPosition creates the legs.
Attempt(outcome) ==
    /\ called.pc = "loop"
    /\ LET attempt == called.value
           retries == called.args[1]
           slept == IF outcome # "confirmed" /\ attempt < retries
                    THEN backoff(attempt) ELSE 0
           log == Append(called.list,
                         [attempt |-> attempt, outcome |-> outcome, slept |-> slept])
           returns == outcome = "confirmed" \/ ~loopCondition(attempt + 1, retries)
           newLegs == createTwoLegPosition(Signal("LONG", 400, 40, now), tradeLegUsdc,
                                           tpMultiplier, trailMultiplier, nextId + 1)
       IN  /\ called' = [called EXCEPT !.list = log,
                                       !.value = IF returns THEN attempt ELSE attempt + 1,
                                       !.pc = IF returns THEN "returned" ELSE "loop",
                                       !.success = (outcome = "confirmed")]
           /\ IF returns /\ called.caller = "openPosition"
              THEN IF outcome = "confirmed"
                   THEN /\ legs' = legs \o newLegs
                        /\ nextId' = nextId + 1
                        /\ last' = Call("openPosition", "LONG", "", undefined,
                                        [NoCalls EXCEPT !.send = Len(log)], "legs")
                   ELSE /\ last' = Call("openPosition", "LONG", "", undefined,
                                        [NoCalls EXCEPT !.send = Len(log)], "null")
                        /\ UNCHANGED <<legs, nextId>>
              ELSE UNCHANGED <<legs, nextId, last>>
    /\ SendFrame

SendInit ==
    /\ broker = "live"
    /\ config = [slippageBps |-> 0, initialUsdcBalance |-> 0,
                 cbBtcMint |-> "cb", wbtcMint |-> "wbtc"]
    /\ BotInit

SendNext ==
    \/ \E c \in {"openPosition", "direct"}, r \in RetryBudgets :
          SendAndConfirmVersionedTransaction(c, r)
    \/ \E o \in AttemptOutcomes : Attempt(o)

SpecSend == SendInit /\ [][SendNext]_vars

----------------------------------------------------------------------------
(* The position engine called directly: createTwoLegPosition appends a      *)
(* position to the leg list, updatePositions replaces the list.  `called`   *)
(* keeps the arguments of the last updatePositions call.                    *)

EngineEntries == {400, 420}
EnginePrices == {380, 400, 420, 440}
\* ATR values of the update calls: those of the entries and a spike.
EngineATRs == ATRs \cup {100}

EngineFrame ==
    /\ UNCHANGED <<broker, config, account, tradeHistory, now, last>>
    /\ UNCHANGED gateVars
    /\ UNCHANGED <<breakerVars, liveVars, asyncVars>>

EngineOpen(price, atr) ==
    /\ nextId < MaxPositions
    /\ legs' = legs \o createTwoLegPosition(Signal("LONG", price, atr, now), tradeLegUsdc,
                                            tpMultiplier, trailMultiplier, nextId + 1)
    /\ nextId' = nextId + 1
    /\ called' = NoCall
    /\ EngineFrame

UpdatePositions(currentPrice, currentATR) ==
    /\ legs # <<>>
    /\ legs' = updatePositions(legs, currentPrice, currentATR, trailMultiplier,
                               breakEvenLockMultiplier, now)
    /\ called' = [NoCall EXCEPT !.op = "updatePositions", !.price = currentPrice,
                                !.value = currentATR, !.args = legs]
    /\ UNCHANGED nextId
    /\ EngineFrame

EngineInit ==
    /\ broker = "none"
    /\ config = [slippageBps |-> 0, initialUsdcBalance |-> 0,
                 cbBtcMint |-> "", wbtcMint |-> ""]
    /\ BotInit

EngineNext ==
    \/ \E p \in EngineEntries, a \in ATRs : EngineOpen(p, a)
    \/ \E p \in EnginePrices, a \in EngineATRs : UpdatePositions(p, a)

SpecEngine == EngineInit /\ [][EngineNext]_vars

----------------------------------------------------------------------------
(* solana/balances: getTokenBalance and the module-level mintDecimalsCache. *)
(* A call suspends at each await; calls started before another has returned *)
(* interleave at those points.                                              *)

\* Decimals of the mint account on chain.
chainDecimals(mint) ==
    CASE mint = "usdc" -> 6
      [] mint \in {"cb", "wbtc"} -> 8
      [] OTHER -> 9

isBtcToken(mint) == mint \in {"cb", "wbtc"}

fallbackDecimals(mint) == IF isBtcToken(mint) THEN 8 ELSE 6

BalanceFrame ==
    /\ UNCHANGED <<broker, config, legs, account, tradeHistory, now, nextId, last>>
    /\ UNCHANGED gateVars
    /\ UNCHANGED <<breakerVars, liveVars, called, files>>

BalanceCall(mint) == [mint |-> mint, pc |-> "getAccount", decimals |-> undefined]

\* getTokenBalance up to its first await.
GetTokenBalance(mint) ==
    /\ Len(balanceCalls.calls) < MaxCalls
    /\ balanceCalls' = [balanceCalls EXCEPT !.calls = Append(@, BalanceCall(mint))]
    /\ BalanceFrame

\* getAllBalances: Promise.all over the balance queries of the USDC mint, the
\* cbBTC mint when one is configured, and the WBTC mint.
GetAllBalances(cbBtcMint) ==
    LET started == <<BalanceCall("usdc")>>
                   \o (IF cbBtcMint # "" THEN <<BalanceCall(cbBtcMint)>> ELSE <<>>)
                   \o <<BalanceCall("wbtc")>>
    IN  /\ Len(balanceCalls.calls) + Len(started) <= MaxCalls
        /\ balanceCalls' = [balanceCalls EXCEPT !.calls = @ \o started]
        /\ BalanceFrame

\* Call i resumes after getAccount: a missing token account returns 0, another
\* error is rethrown, otherwise getMintDecimals runs up to its await: a cached
\* value is returned, else getMint is called.
AfterGetAccount(i, outcome) ==
    /\ i \in 1..Len(balanceCalls.calls)
    /\ balanceCalls.calls[i].pc = "getAccount"
    /\ LET mint == balanceCalls.calls[i].mint
           cached == balanceCalls.mintDecimalsCache[mint]
       IN  balanceCalls' =
             CASE outcome = "could not find account" ->
                    [balanceCalls EXCEPT !.calls[i].pc = "returned 0"]
               [] outcome = "error" ->
                    [balanceCalls EXCEPT !.calls[i].pc = "thrown"]
               [] OTHER ->
                    IF cached # undefined
                    THEN [balanceCalls EXCEPT !.calls[i].pc = "returned",
                                              !.calls[i].decimals = cached]
                    ELSE [balanceCalls EXCEPT !.calls[i].pc = "getMint",
                                              !.getMint[mint] = @ + 1]
    /\ BalanceFrame

\* Call i resumes after getMint: the decimals of the chain, or the fallback
\* when the lookup failed, are cached and used.
AfterGetMint(i, ok) ==
    /\ i \in 1..Len(balanceCalls.calls)
    /\ balanceCalls.calls[i].pc = "getMint"
    /\ LET mint == balanceCalls.calls[i].mint
           decimals == IF ok THEN chainDecimals(mint) ELSE fallbackDecimals(mint)
       IN  balanceCalls' = [balanceCalls EXCEPT !.mintDecimalsCache[mint] = decimals,
                                                !.calls[i].pc = "returned",
                                                !.calls[i].decimals = decimals]
    /\ BalanceFrame

AccountOutcomes == {"ok", "could not find account", "error"}

BalancesInit ==
    /\ broker = "live"
    /\ config = [slippageBps |-> 0, initialUsdcBalance |-> 0,
                 cbBtcMint |-> "cb", wbtcMint |-> "wbtc"]
    /\ BotInit

BalancesNext ==
    \/ \E m \in BalanceMints : GetTokenBalance(m)
    \/ \E c \in {"", "cb"} : GetAllBalances(c)
    \/ \E i \in 1..MaxCalls, o \in AccountOutcomes : AfterGetAccount(i, o)
    \/ \E i \in 1..MaxCalls, ok \in BOOLEAN : AfterGetMint(i, ok)

SpecBalances == BalancesInit /\ [][BalancesNext]_vars

----------------------------------------------------------------------------
(* core/StateManager.save, by two StateManagers with the same filePath in   *)
(* two processes.  writeFileSync opens the temp file (creating or           *)
(* truncating it) and writes the content through the descriptor; renameSync *)
(* gives the inode of the temp file the name of the state file.  The steps  *)
(* of the two processes interleave.                                         *)

StateFrame ==
    /\ UNCHANGED <<broker, config, legs, account, tradeHistory, now, nextId, last>>
    /\ UNCHANGED gateVars
    /\ UNCHANGED <<breakerVars, liveVars, called, balanceCalls>>

\* The content of save number n of writer w.
content(w, n) == [by |-> w, n |-> n]

\* writeFileSync, the open: tempPath is created, or truncated when it exists.
SaveOpen(w) ==
    /\ files.writers[w].pc = "idle"
    /\ files.writers[w].n < MaxSaves
    /\ IF files.tempPath = 0
       THEN files' = [files EXCEPT !.inodes = Append(@, NoSnapshot),
                                   !.tempPath = Len(files.inodes) + 1,
                                   !.writers[w].fd = Len(files.inodes) + 1,
                                   !.writers[w].n = @ + 1,
                                   !.writers[w].pc = "opened"]
       ELSE files' = [files EXCEPT !.inodes[files.tempPath] = NoSnapshot,
                                   !.writers[w].fd = files.tempPath,
                                   !.writers[w].n = @ + 1,
                                   !.writers[w].pc = "opened"]
    /\ StateFrame

\* writeFileSync, the write: the content goes to the inode that was opened,
\* whatever name it has by now.
SaveWrite(w) ==
    /\ files.writers[w].pc = "opened"
    /\ files' = [files EXCEPT !.inodes[files.writers[w].fd] = content(w, files.writers[w].n),
                              !.writers[w].pc = "written"]
    /\ StateFrame

\* renameSync: with no temp file it throws and save rethrows; else the state
\* file becomes the temp file's inode and the save has completed.
SaveRename(w) ==
    /\ files.writers[w].pc = "written"
    /\ IF files.tempPath = 0
       THEN files' = [files EXCEPT !.writers[w].pc = "idle",
                                   !.writers[w].failed = TRUE]
       ELSE files' = [files EXCEPT !.filePath = files.tempPath,
                                   !.tempPath = 0,
                                   !.writers[w].pc = "idle",
                                   !.writers[w].renamedOther =
                                       @ \/ files.inodes[files.tempPath].by # w,
                                   !.completedLast = content(w, files.writers[w].n)]
    /\ StateFrame

StateInit ==
    /\ broker = "paper"
    /\ config = [slippageBps |-> 0, initialUsdcBalance |-> 0,
                 cbBtcMint |-> "", wbtcMint |-> ""]
    /\ BotInit

StateNext ==
    \/ \E w \in Writers : SaveOpen(w)
    \/ \E w \in Writers : SaveWrite(w)
    \/ \E w \in Writers : SaveRename(w)

SpecState == StateInit /\ [][StateNext]_vars

----------------------------------------------------------------------------
(* Properties of the position engine, checked on the paper-trading bot *)

IsRunner(l) == l.type = "RUNNER"
IsTP(l) == l.type = "TP"

\* C1: on a LONG signal createTwoLegPosition (through openPosition) returns
\* exactly two OPEN legs sharing one positionId, with equal quantity
\* unitAmount / entryPrice: a TP leg with targetPrice = entryPrice +
\* atr * tpMultiplier (440 for entry 400, atr 40) and a RUNNER leg with no
\* trailingStop and highestPrice = entryPrice.
C1_OpenCreatesTwoLegs ==
    [][\A p \in EntryPrices, a \in ATRs :
         (PaperOpenPosition("LONG", p, a) /\ last'.ret = "legs") =>
            LET n == Len(legs)
                entry == applySlippage(p, TRUE)
                tp == legs'[n + 1]
                rn == legs'[n + 2]
            IN  /\ Len(legs') = n + 2
                /\ tp.status = "OPEN" /\ rn.status = "OPEN"
                /\ tp.type = "TP" /\ rn.type = "RUNNER"
                /\ tp.positionId = rn.positionId
                /\ tp.entryPrice = entry /\ rn.entryPrice = entry
                /\ tp.quantity = rn.quantity
                /\ tp.quantity * entry = tradeLegUsdc
                /\ tp.targetPrice = entry + a * 1
                /\ (entry = 400 /\ a = 40) => tp.targetPrice = 440
                /\ rn.trailingStop = undefined
                /\ rn.highestPrice = entry]_vars

C1_Witness ==
    /\ last.op = "openPosition" /\ last.ret = "legs"
    /\ Len(legs) = 2
    /\ legs[1].type = "TP" /\ legs[1].entryPrice = 400 /\ legs[1].targetPrice = 440
    /\ legs[2].type = "RUNNER" /\ legs[2].trailingStop = undefined

\* C2: one update at price 440 with ATR 40 on an open position (entry 400,
\* TP target 440, runner without stop) closes the TP leg at 440 with reason
\* "TP target hit" and in the same call sets the RUNNER's trailingStop to
\* entry + 0.25 * ATR = 410 and leaves the RUNNER OPEN.
C2_TPCloseActivatesRunner ==
    [][PaperUpdateAndClosePositions(440, 40) =>
         \A i \in 1..Len(legs) :
            (IsTP(legs[i]) /\ legs[i].status = "OPEN"
               /\ legs[i].entryPrice = 400 /\ legs[i].targetPrice = 440) =>
                /\ legs'[i].status = "CLOSED"
                /\ legs'[i].closePrice = 440
                /\ legs'[i].closeReason = "TP target hit"
                /\ \A j \in 1..Len(legs) :
                      (IsRunner(legs[j]) /\ legs[j].positionId = legs[i].positionId
                         /\ legs[j].status = "OPEN" /\ legs[j].trailingStop = undefined) =>
                          /\ legs'[j].trailingStop = 410
                          /\ legs'[j].status = "OPEN"]_vars

C2_Witness ==
    /\ last.op = "updateAndClosePositions"
    /\ Len(legs) = 2
    /\ legs[1].status = "CLOSED" /\ legs[1].closePrice = 440
    /\ legs[1].closeReason = "TP target hit"
    /\ legs[2].status = "OPEN" /\ legs[2].trailingStop = 410
    /\ legs[2].highestPrice = 440

\* C3: through every sequence of calls a RUNNER leg's highestPrice never
\* decreases, and once its trailingStop is set it never decreases; an update
\* of an OPEN runner with a stop sets the stop to
\* max(previous stop, highestPrice - ATR * trailMultiplier).
C3_StopAndHighMonotonic ==
    [][/\ \A i \in 1..Len(legs) :
            IsRunner(legs[i]) =>
               /\ legs'[i].highestPrice >= legs[i].highestPrice
               /\ legs[i].trailingStop # undefined =>
                     /\ legs'[i].trailingStop # undefined
                     /\ legs'[i].trailingStop >= legs[i].trailingStop
       /\ \A p \in Prices, a \in ATRs :
            (last'.op = "updateAndClosePositions" /\ PaperUpdateAndClosePositions(p, a)) =>
               \A i \in 1..Len(legs) :
                  (IsRunner(legs[i]) /\ legs[i].status = "OPEN"
                     /\ legs[i].trailingStop # undefined) =>
                      LET c == legs'[i].highestPrice - (a * 5) \div 2
                      IN  legs'[i].trailingStop =
                             (IF c > legs[i].trailingStop THEN c ELSE legs[i].trailingStop)
      ]_vars

\* A runner whose stop has been raised above both possible lock prices and
\* is still open.
C3_Witness ==
    /\ last.op = "updateAndClosePositions"
    /\ \E i \in 1..Len(legs) :
          /\ IsRunner(legs[i]) /\ legs[i].status = "OPEN"
          /\ legs[i].trailingStop = 420 /\ legs[i].highestPrice = 440

\* C4: a RUNNER's trailing stop is activated only when the TP leg of its own
\* position closes in that call; runners of positions whose TP leg stays
\* open keep trailingStop unset.
C4_ActivationNeedsOwnTP ==
    [][\A p \in Prices, a \in ATRs :
         PaperUpdateAndClosePositions(p, a) =>
            \A j \in 1..Len(legs) :
               (IsRunner(legs[j]) /\ legs[j].trailingStop = undefined
                  /\ legs'[j].trailingStop # undefined) =>
                   \E i \in 1..Len(legs) :
                      /\ IsTP(legs[i]) /\ legs[i].positionId = legs[j].positionId
                      /\ legs[i].status = "OPEN" /\ legs'[i].status = "CLOSED"]_vars

\* C5: a CLOSED leg is returned unchanged by every call (status, closePrice,
\* closeTime, closeReason, trailingStop, highestPrice) and is never reopened.
C5_ClosedLegsFrozen ==
    [][\A i \in 1..Len(legs) :
         legs[i].status = "CLOSED" =>
            /\ Len(legs') >= i
            /\ legs'[i] = legs[i]]_vars

\* A SHORT trim has just run over a runner that its trailing stop had
\* already closed.
C5_Witness ==
    /\ last.op = "trimRunners" /\ last.sigType = "SHORT"
    /\ \E i \in 1..Len(legs) :
          /\ IsRunner(legs[i]) /\ legs[i].status = "CLOSED"
          /\ legs[i].closeReason = "Trailing stop hit"

\* Indices that went from OPEN to CLOSED in the step.
JustClosed == {i \in 1..Len(legs) : legs[i].status = "OPEN" /\ legs'[i].status = "CLOSED"}

\* C6: updateAndClosePositions executes a close for every leg that went from
\* OPEN to CLOSED in the call: the PaperBroker's base-asset balance falls,
\* its quote-asset balance rises and one trade-history record is appended per
\* such leg; the LiveBroker starts the close swap protocol (its balance
\* query) once per such leg.
C6_UpdateExecutesCloses ==
    [][\A p \in CyclePrices, a \in CycleATRs :
         /\ PaperUpdateAndClosePositions(p, a) =>
               /\ Len(tradeHistory') = Len(tradeHistory) + Cardinality(JustClosed)
               /\ JustClosed # {} =>
                     /\ account'.btcBalance < account.btcBalance
                     /\ account'.usdcBalance > account.usdcBalance
         /\ LiveUpdateAndClosePositions(p, a) =>
               last'.calls.balance = Cardinality(JustClosed)]_vars

\* C7: PaperBroker.closeLeg on an OPEN leg that carries a closePrice fills at
\* leg.closePrice with sell slippage applied, not at candle.close: the
\* appended trade-history record has that price.
C7_CloseUsesLegClosePrice ==
    [][\A l \in CloseInputs, p \in Prices :
         (PaperCloseLegCall(l, p) /\ l.status = "OPEN" /\ l.closePrice # undefined) =>
            /\ Len(tradeHistory') = Len(tradeHistory) + 1
            /\ tradeHistory'[Len(tradeHistory')].price = applySlippage(l.closePrice, FALSE)
            /\ account'.usdcBalance =
                  account.usdcBalance + l.quantity * applySlippage(l.closePrice, FALSE)]_vars

\* C8: closeLeg on a leg whose status is already CLOSED does nothing in
\* either broker: the PaperBroker's balances and trade history are
\* unchanged; the LiveBroker makes no balance query, quote request or
\* transaction submission and returns nothing.
C8_CloseOfClosedLegIsNoOp ==
    [][(last'.op = "closeLeg" /\ last'.legStatus = "CLOSED") =>
       \A l \in CloseInputs :
         l.status = "CLOSED" =>
            /\ \A p \in Prices :
                  PaperCloseLegCall(l, p) => UNCHANGED <<account, tradeHistory>>
            /\ \A env \in CloseEnvs(l, 0) :
                  LiveCloseLegCall(l, env) =>
                     /\ last'.calls = NoCalls
                     /\ last'.ret = "void"
                     /\ UNCHANGED <<account, tradeHistory, legs>>]_vars

\* closeLeg has just been called on a CLOSED leg of a funded PaperBroker
\* that holds a position.
C8_Witness ==
    /\ broker = "paper"
    /\ last.op = "closeLeg" /\ last.legStatus = "CLOSED"
    /\ tradeHistory # <<>>
    /\ account.btcBalance > 0

----------------------------------------------------------------------------
(* Properties of the risk gate *)

\* The positions of an asset that still have an OPEN leg.
OpenPositionIds(assetSymbol) ==
    {l.positionId : l \in {m \in {LegsOf(state, assetSymbol)[i] :
                                     i \in 1..Len(LegsOf(state, assetSymbol))} :
                              m.status = "OPEN"}}

PositionCount(assetSymbol) == Cardinality(OpenPositionIds(assetSymbol))

TotalPositionCount == PositionCount("BTC") + PositionCount("ETH")

InState(assetSymbol) == \E i \in 1..Len(state) : state[i].asset = assetSymbol

\* C9: the risk gate counts open positions by distinct positionId among OPEN
\* legs, never by leg count: a position counts as 1 while at least one of its
\* legs is OPEN and as 0 once both are CLOSED.  With one open two-leg position
\* and the limits maxPositionsPerAsset = 2, maxTotalPositions = 3, no cooldown,
\* canAssetTrade returns allowed and getTotalOpenPositions returns 1.
C9_GateCountsPositions ==
    /\ (gate.op = "canAssetTrade" /\ InState(gate.asset)) =>
          /\ gate.reason.kind = "at max positions" <=>
                PositionCount(gate.asset) >= managerConfig.maxPositionsPerAsset
          /\ gate.reason.kind = "at max positions" =>
                gate.reason.n = PositionCount(gate.asset)
          /\ gate.reason.kind = "Total positions at max" =>
                gate.reason.n = TotalPositionCount
          /\ (/\ managerConfig = [maxPositionsPerAsset |-> 2, maxTotalPositions |-> 3,
                                  minTimeBetweenTradesMs |-> 0]
              /\ TotalPositionCount = 1
              /\ PositionCount(gate.asset) = 1) => gate.canTrade
    /\ gate.op = "getTotalOpenPositions" => gate.total = TotalPositionCount

\* canAssetTrade has just allowed a trade for BTC, which holds one position
\* with both legs OPEN, under maxPositionsPerAsset = 2.
C9_Witness ==
    /\ gate.op = "canAssetTrade" /\ gate.asset = "BTC" /\ gate.canTrade
    /\ managerConfig.maxPositionsPerAsset = 2
    /\ Len(LegsOf(state, "BTC")) = 2
    /\ LegsOf(state, "BTC")[1].status = "OPEN"
    /\ LegsOf(state, "BTC")[2].status = "OPEN"
    /\ LegsOf(state, "BTC")[1].positionId = LegsOf(state, "BTC")[2].positionId
    /\ TotalPositionCount = 1

\* The four denial conditions of canAssetTrade for the last query.
AssetMissing == ~InState(gate.asset)
AssetAtMax == PositionCount(gate.asset) >= managerConfig.maxPositionsPerAsset
TotalAtMax == TotalPositionCount >= managerConfig.maxTotalPositions
InCooldown ==
    \E i \in 1..Len(state) :
       /\ state[i].asset = gate.asset
       /\ state[i].lastTradeTime > 0
       /\ gate.time - state[i].lastTradeTime < managerConfig.minTimeBetweenTradesMs

\* C10: canAssetTrade returns the first matching outcome in the order
\* (1) asset not in state, (2) the asset's open position count >=
\* maxPositionsPerAsset, (3) the count over all assets >= maxTotalPositions,
\* (4) lastTradeTime > 0 and currentTime - lastTradeTime <
\* minTimeBetweenTradesMs, (5) allowed; it never allows a trade when any of
\* conditions 1 to 4 holds.
C10_GateOrder ==
    gate.op = "canAssetTrade" =>
       /\ gate.reason.kind =
             (IF AssetMissing THEN "Asset not found in state"
              ELSE IF AssetAtMax THEN "at max positions"
              ELSE IF TotalAtMax THEN "Total positions at max"
              ELSE IF InCooldown THEN "in cooldown"
              ELSE "")
       /\ gate.canTrade <=> ~(AssetMissing \/ AssetAtMax \/ TotalAtMax \/ InCooldown)
       /\ gate.canTrade <=> gate.reason = NoReason

\* A query for which conditions 2, 3 and 4 all hold has been answered with
\* the outcome of condition 2.
C10_Witness ==
    /\ gate.op = "canAssetTrade"
    /\ ~AssetMissing /\ AssetAtMax /\ TotalAtMax /\ InCooldown
    /\ gate.reason.kind = "at max positions"
    /\ ~gate.canTrade

----------------------------------------------------------------------------
(* Properties of the circuit breaker *)

\* C11: after recordTrade(pnl, currentPortfolioValue) the counters are updated
\* and the breaker is tripped if dailyPnl / currentPortfolioValue is below
\* -maxDailyLossPct percent or consecutiveLosses >= maxConsecutiveLosses; a
\* breaker that was not tripped and meets neither condition stays not tripped.
C11_RecordTradeTrips ==
    [][\A pnl \in Pnls, v \in PortfolioValues :
         RecordTrade(pnl, v) =>
            LET lossLimit == cb'.dailyPnl * 100 < (0 - cbConfig.maxDailyLossPct) * v
                streakLimit == cb'.consecutiveLosses >= cbConfig.maxConsecutiveLosses
            IN  /\ cb'.dailyPnl = cb.dailyPnl + pnl
                /\ cb'.tradesExecutedToday = cb.tradesExecutedToday + 1
                /\ cb'.consecutiveLosses = (IF pnl < 0 THEN cb.consecutiveLosses + 1 ELSE 0)
                /\ (lossLimit \/ streakLimit) => cb'.tripped
                /\ (~cb.tripped /\ ~lossLimit /\ ~streakLimit) => ~cb'.tripped]_vars

\* A trade has tripped the breaker on the daily loss with the loss streak
\* still under its limit.
C11_Witness ==
    /\ cbOut.op = "recordTrade"
    /\ cb.tripped
    /\ cb.tripReason.kind = "Daily loss limit exceeded"
    /\ cb.consecutiveLosses < cbConfig.maxConsecutiveLosses

\* C12: once tripped the breaker stays tripped, and canTrade returns denied,
\* through every recordTrade, canTrade, resetDaily and validatePrice call and
\* every day rollover; only reset() returns it to not tripped.
C12_TrippedUntilReset ==
    [][cb.tripped =>
          /\ ~cb'.tripped => Reset
          /\ CanTrade => (~cbOut'.allowed /\ cb'.tripped)]_vars

\* canTrade has denied on a breaker that tripped on an earlier day and has
\* seen a day rollover and a winning trade since.
C12_Witness ==
    /\ cbOut.op = "canTrade" /\ ~cbOut.allowed
    /\ cb.tripped
    /\ cb.resetDate = 1
    /\ cb.consecutiveLosses = 0
    /\ cb.dailyPnl > 0

\* C13: resetDaily changes state only when the current date differs from
\* resetDate; then it sets dailyPnl = 0, tradesExecutedToday = 0 and
\* resetDate = today and leaves tripped, tripReason, consecutiveLosses and
\* lastTradeTimestamp unchanged; on the same date it changes nothing.
C13_ResetDailyFrame ==
    [][ResetDaily =>
          /\ cb'.tripped = cb.tripped
          /\ cb'.tripReason = cb.tripReason
          /\ cb'.consecutiveLosses = cb.consecutiveLosses
          /\ cb'.lastTradeTimestamp = cb.lastTradeTimestamp
          /\ dateOf(now) # cb.resetDate =>
                /\ cb'.dailyPnl = 0
                /\ cb'.tradesExecutedToday = 0
                /\ cb'.resetDate = dateOf(now)
          /\ dateOf(now) = cb.resetDate => cb' = cb]_vars

\* resetDaily has run on a new day over a tripped breaker with a loss streak.
C13_Witness ==
    /\ cbOut.op = "resetDaily"
    /\ cb.resetDate = 1 /\ dateOf(cb.lastTradeTimestamp) = 0
    /\ cb.dailyPnl = 0 /\ cb.tradesExecutedToday = 0
    /\ cb.tripped /\ cb.consecutiveLosses > 0

\* The three denial conditions of canTrade on the breaker state.
BreakerTripped == cb.tripped
DailyLimitReached == cb.tradesExecutedToday >= cbConfig.maxDailyTrades
CooldownActive ==
    /\ cb.lastTradeTimestamp > 0
    /\ now - cb.lastTradeTimestamp < cbConfig.minTimeBetweenTradesMs

\* C14: canTrade returns denied if the breaker is tripped; else denied if
\* tradesExecutedToday >= maxDailyTrades; else denied if lastTradeTimestamp > 0
\* and the time since it is below minTimeBetweenTradesMs; else allowed.  It is
\* allowed exactly when none of the three holds (counters as of today).
C14_CanTradeOrder ==
    cbOut.op = "canTrade" =>
       /\ cbOut.reason.kind =
             (IF BreakerTripped THEN "Circuit breaker tripped: " \o cb.tripReason.kind
              ELSE IF DailyLimitReached THEN "Daily trade limit reached"
              ELSE IF CooldownActive THEN "Cooldown period active"
              ELSE "")
       /\ cbOut.allowed <=> ~(BreakerTripped \/ DailyLimitReached \/ CooldownActive)

\* canTrade has denied for the daily limit while the cooldown was active too.
C14_Witness ==
    /\ cbOut.op = "canTrade" /\ ~cbOut.allowed
    /\ ~BreakerTripped /\ DailyLimitReached /\ CooldownActive
    /\ cbOut.reason.kind = "Daily trade limit reached"

----------------------------------------------------------------------------
(* Properties of the LiveBroker's close path *)

\* C15: LiveBroker.closeLeg on an OPEN leg that carries a persisted btcMint
\* hands that mint, and no other, to the balance check (canClosePosition)
\* and to the quote request (getQuoteBtcToUsdc), whatever default mint is
\* configured.
C15_CloseUsesPersistedMint ==
    (/\ broker = "live"
     /\ last.op = "closeLeg"
     /\ last.legStatus = "OPEN"
     /\ last.legMint # "") =>
        /\ last.calls.balance = 1
        /\ last.calls.balanceMints = {last.legMint}
        /\ last.calls.quote <= 1
        /\ last.calls.quote = 1 => last.calls.quoteMints = {last.legMint}

\* closeLeg has just queried the balance and asked a quote for a leg bought
\* through the fallback mint while the primary mint is the configured default.
C15_Witness ==
    /\ broker = "live"
    /\ config.cbBtcMint = "cb"
    /\ last.op = "closeLeg" /\ last.legStatus = "OPEN"
    /\ last.legMint = "wbtc"
    /\ last.calls.quote = 1
    /\ last.calls.balanceMints = {"wbtc"}
    /\ last.calls.quoteMints = {"wbtc"}

----------------------------------------------------------------------------
(* Properties of the JupiterClient *)

\* C16: validateQuote returns false whenever the original quote's output
\* amount is 0, whatever the fresh quote is.
C16_ZeroOriginalIsInvalid ==
    (jup.op = "validateQuote" /\ jup.original.outAmount = 0) => ~jup.valid

\* The price impact of an answer of the API, in basis points.
AnswerImpactBps(a) == IF a.priceImpactPct = undefined THEN 0 ELSE a.priceImpactPct

Available(mint) ==
    /\ mint # ""
    /\ ~jup.api[mint].isNull
    /\ AnswerImpactBps(jup.api[mint]) <= jupConfig.maxPriceImpactBps

\* C20: getQuoteUsdcToBtc returns the primary quote when a primary mint is
\* configured and its quote is available within the price-impact limit,
\* else the secondary quote when that one is available within the limit,
\* else null; a returned quote never exceeds the limit and the returned
\* btcMint is the output mint of the returned quote.
C20_QuotePreference ==
    jup.op = "getQuoteUsdcToBtc" =>
        /\ Available(jupConfig.cbBtcMint) =>
              /\ jup.btcMint = jupConfig.cbBtcMint
              /\ jup.quote.outAmount = jup.api[jupConfig.cbBtcMint].outAmount
        /\ (~Available(jupConfig.cbBtcMint) /\ Available(jupConfig.wbtcMint)) =>
              /\ jup.btcMint = jupConfig.wbtcMint
              /\ jup.quote.outAmount = jup.api[jupConfig.wbtcMint].outAmount
        /\ (~Available(jupConfig.cbBtcMint) /\ ~Available(jupConfig.wbtcMint)) =>
              jup.quote.isNull
        /\ ~jup.quote.isNull =>
              /\ jup.quote.priceImpactPct <= jupConfig.maxPriceImpactBps
              /\ jup.btcMint = jup.quote.outputMint

\* The primary quote came back above the limit and the secondary quote was
\* returned instead.
C20_Witness ==
    /\ jup.op = "getQuoteUsdcToBtc"
    /\ jupConfig.cbBtcMint = "cb"
    /\ ~jup.api["cb"].isNull
    /\ jup.api["cb"].priceImpactPct > jupConfig.maxPriceImpactBps
    /\ jup.requests = <<"cb", "wbtc">>
    /\ ~jup.quote.isNull /\ jup.btcMint = "wbtc"

----------------------------------------------------------------------------
(* Properties of LiveBroker.openPosition *)

StepRank(name) ==
    CASE name = "canTrade" -> 1
      [] name = "getQuote" -> 2
      [] name = "validateQuote" -> 3
      [] name = "buildSwapTransaction" -> 4
      [] name = "sendTransaction" -> 5

\* The requests of a run are in protocol order, and each one was made only
\* after a request of every earlier step had succeeded.
InProtocolOrder(log) ==
    /\ \A i, j \in 1..Len(log) :
          i < j => StepRank(log[i].step) <= StepRank(log[j].step)
    /\ \A j \in 1..Len(log) :
          \A r \in 1..(StepRank(log[j].step) - 1) :
             \E i \in 1..(j - 1) : StepRank(log[i].step) = r /\ log[i].ok
    /\ \A name \in {"canTrade", "validateQuote", "buildSwapTransaction"} :
          Cardinality(Logged(log, name)) <= 1

Confirmed(log) ==
    log # <<>> /\ log[Len(log)].step = "sendTransaction" /\ log[Len(log)].ok

\* C17: openPosition makes its requests in the order balance check, quote,
\* fresh-quote validation, build, sign/submit/confirm, each only after every
\* earlier step succeeded; no leg is created while the call is in progress;
\* when it returns, it returns null and has created no leg unless the swap
\* was confirmed, and then it has created exactly two legs.
C17_OpenStepsInOrder ==
    [][/\ InProtocolOrder(flow'.log)
       /\ flow'.pc # "idle" => legs' = legs
       /\ (flow.pc # "idle" /\ flow'.pc = "idle") =>
             /\ last'.op = "openPosition"
             /\ IF Confirmed(flow'.log)
                THEN /\ last'.ret = "legs"
                     /\ Len(legs') = Len(legs) + 2
                     /\ SubSeq(legs', 1, Len(legs)) = legs
                ELSE /\ last'.ret = "null"
                     /\ legs' = legs
       /\ \A t \in SignalTypes, p \in EntryPrices, a \in CycleATRs :
             (LiveOpenStart(t, p, a) /\ t # "LONG") =>
                /\ last'.ret = "null" /\ last'.calls = NoCalls
                /\ legs' = legs]_vars

\* A call was abandoned when the fresh quote had degraded, after an earlier
\* call had gone through all five steps and created its two legs.
C17_Witness ==
    /\ Len(legs) = 2
    /\ flow.pc = "idle"
    /\ last.op = "openPosition" /\ last.ret = "null"
    /\ Len(flow.log) >= 3
    /\ flow.log[Len(flow.log)].step = "validateQuote"
    /\ ~flow.log[Len(flow.log)].ok

SendAttempts == Cardinality(Logged(flow.log, "sendTransaction"))

\* C18: the retry loop makes at most maxRetries attempts, one after another
\* with no quote request or build between them, ends with success at the
\* first confirmed attempt and with failure after maxRetries failed
\* attempts, and always ends.
C18_SendTerminates ==
    /\ [](/\ SendAttempts <= maxRetries
          /\ flow.pc = "sendTransaction" => SendAttempts = flow.attempt - 1
          /\ \A i \in Logged(flow.log, "sendTransaction") :
                /\ i < Len(flow.log) =>
                      ~flow.log[i].ok /\ flow.log[i + 1].step = "sendTransaction"
                /\ (i = Len(flow.log) /\ flow.log[i].ok) =>
                      /\ flow.pc = "idle"
                      /\ last.op = "openPosition" => last.ret = "legs"
                /\ (i = Len(flow.log) /\ ~flow.log[i].ok /\ flow.pc = "idle") =>
                      /\ SendAttempts = maxRetries
                      /\ last.op = "openPosition" => last.ret = "null")
    /\ (flow.pc = "sendTransaction" ~> flow.pc = "idle")

\* The third attempt was confirmed after two failed ones.
C18_Witness ==
    /\ flow.pc = "idle"
    /\ SendAttempts = maxRetries
    /\ Confirmed(flow.log)
    /\ last.op = "openPosition" /\ last.ret = "legs"

ImmutableFields(l) ==
    <<l.btcMint, l.entryPrice, l.quantity, l.entryTime, l.positionId, l.targetPrice>>

\* C19: the two legs openPosition returns carry the mint of the quote that
\* was accepted and executed, and no later call changes a leg's btcMint,
\* entryPrice, quantity, entryTime, positionId or targetPrice.
C19_LegsKeepMint ==
    [][/\ (flow.pc = "sendTransaction" /\ Len(legs') > Len(legs)) =>
             \A i \in (Len(legs) + 1)..Len(legs') :
                /\ legs'[i].btcMint = flow.quote.outputMint
                /\ \E k \in Logged(flow.log, "getQuote") :
                      flow.log[k].ok /\ flow.log[k].mint = legs'[i].btcMint
       /\ Len(legs') >= Len(legs)
       /\ \A i \in 1..Len(legs) : ImmutableFields(legs'[i]) = ImmutableFields(legs[i])]_vars

\* A position bought through the fallback mint, with the primary mint
\* configured, has had its TP leg closed by updateAndClosePositions.
C19_Witness ==
    /\ config.cbBtcMint = "cb"
    /\ last.op = "updateAndClosePositions"
    /\ \E i \in 1..Len(legs) :
          /\ legs[i].btcMint = "wbtc"
          /\ legs[i].type = "TP" /\ legs[i].status = "CLOSED"

\* C21: when a swap is confirmed, the entry price of the two new legs is the
\* amount paid divided by the amount of BTC the transaction delivered,
\* whatever the quote had estimated.
C21_FillFollowsActualOutput ==
    [][flow.pc = "sendTransaction" =>
       \A r \in ReceivedAmounts(flow.quote) :
          StepSendTransaction("confirmed", r) =>
             \A i \in (Len(legs) + 1)..Len(legs') :
                legs'[i].entryPrice = (2 * tradeLegUsdc) \div (r \div btcDecimals)]_vars

\* RUNNER legs that went from OPEN to CLOSED in the step.
TrimmedRunners == {i \in JustClosed : legs'[i].type = "RUNNER"}

\* C22: trimRunners with a SHORT signal executes a close for every RUNNER
\* leg the trim moved from OPEN to CLOSED: the PaperBroker appends one
\* trade-history record per such leg and moves the balances, the LiveBroker
\* starts the close protocol once per such leg; with any other signal the
\* legs are returned unchanged and nothing is executed.
C22_TrimExecutesCloses ==
    [][last'.op = "trimRunners" =>
       \A t \in SignalTypes, p \in CyclePrices :
         /\ PaperTrimRunners(t, p) =>
               IF t = "SHORT"
               THEN /\ Len(tradeHistory') = Len(tradeHistory) + Cardinality(TrimmedRunners)
                    /\ TrimmedRunners # {} =>
                          /\ account'.btcBalance < account.btcBalance
                          /\ account'.usdcBalance > account.usdcBalance
               ELSE /\ legs' = legs
                    /\ UNCHANGED <<account, tradeHistory>>
         /\ LiveTrimRunners(t, p) =>
               IF t = "SHORT"
               THEN last'.calls.balance = Cardinality(TrimmedRunners)
               ELSE legs' = legs /\ last'.calls = NoCalls]_vars

----------------------------------------------------------------------------
(* Properties of the trim *)

\* What a trimRunners call with signal type t at price p has done to the
\* legs, when a trimmed runner carries the close reason `reason`.
TrimOutcome(t, p, reason) ==
    /\ Len(legs') = Len(legs)
    /\ t # "SHORT" => legs' = legs
    /\ t = "SHORT" =>
          \A i \in 1..Len(legs) :
             IF legs[i].type = "RUNNER" /\ legs[i].status = "OPEN"
             THEN /\ legs'[i].status = "CLOSED"
                  /\ legs'[i].closePrice = p
                  /\ legs'[i].closeReason = reason
                  /\ legs'[i].id = legs[i].id
                  /\ ImmutableFields(legs'[i]) = ImmutableFields(legs[i])
             ELSE legs'[i] = legs[i]

----------------------------------------------------------------------------
(* Properties of opening a position and of the PaperBroker's ledger *)

\* C24: a signal that is not LONG opens nothing: createTwoLegPosition throws
\* for it and returns no leg, and openPosition of either broker returns null
\* with legs, balances and trade history unchanged and, in the LiveBroker,
\* without any balance query, quote request or transaction.
C24_NonLongRejected ==
    [][/\ called'.op = "createTwoLegPosition" =>
             IF called'.sigType = "LONG"
             THEN ~called'.throws /\ Len(called'.list) = 2
             ELSE called'.throws /\ called'.list = <<>>
       /\ (last'.op = "openPosition" /\ last'.sigType # "LONG") =>
             \A t \in SignalTypes \ {"LONG"}, p \in EntryPrices, a \in CycleATRs :
                /\ PaperOpenPosition(t, p, a) =>
                      /\ last'.ret = "null"
                      /\ UNCHANGED <<legs, account, tradeHistory, nextId>>
                /\ \A env \in OpenEnvs :
                      LiveOpenPosition(t, p, a, env) =>
                         /\ last'.ret = "null"
                         /\ last'.calls = NoCalls
                         /\ UNCHANGED <<legs, account, tradeHistory, nextId>>]_vars

\* createTwoLegPosition has thrown for a SHORT signal, and a broker that
\* holds a position has just returned null for a SHORT signal.
C24_Witness ==
    /\ called.op = "createTwoLegPosition" /\ called.sigType = "SHORT" /\ called.throws
    /\ last.op = "openPosition" /\ last.sigType = "SHORT" /\ last.ret = "null"
    /\ legs # <<>>

\* C27: PaperBroker.openPosition has two outcomes only.  For a signal that
\* is not LONG, or a quote-asset balance below 2 * tradeLegUsdc, it returns
\* null and leaves legs, balances and trade history unchanged; otherwise it
\* returns two legs, debits exactly 2 * tradeLegUsdc, credits the sum of the
\* two leg quantities and appends one OPEN_POSITION record.
C27_OpenAllOrNothing ==
    [][(broker = "paper" /\ last'.op = "openPosition") =>
       \A t \in SignalTypes, p \in EntryPrices, a \in CycleATRs :
          PaperOpenPosition(t, p, a) =>
             IF t # "LONG" \/ account.usdcBalance < 2 * tradeLegUsdc
             THEN /\ last'.ret = "null"
                  /\ UNCHANGED <<legs, account, tradeHistory>>
             ELSE /\ last'.ret = "legs"
                  /\ Len(legs') = Len(legs) + 2
                  /\ SubSeq(legs', 1, Len(legs)) = legs
                  /\ account'.usdcBalance = account.usdcBalance - 2 * tradeLegUsdc
                  /\ account'.btcBalance =
                        account.btcBalance + legs'[Len(legs) + 1].quantity
                                           + legs'[Len(legs) + 2].quantity
                  /\ Len(tradeHistory') = Len(tradeHistory) + 1
                  /\ SubSeq(tradeHistory', 1, Len(tradeHistory)) = tradeHistory
                  /\ tradeHistory'[Len(tradeHistory')].action = "OPEN_POSITION"
                  /\ tradeHistory'[Len(tradeHistory')].usdcAmount = 0 - 2 * tradeLegUsdc]_vars

\* A LONG signal has just been rejected because the first position used up
\* the quote-asset balance.
C27_Witness ==
    /\ broker = "paper"
    /\ last.op = "openPosition" /\ last.sigType = "LONG" /\ last.ret = "null"
    /\ account.usdcBalance < 2 * tradeLegUsdc
    /\ Len(legs) = 2
    /\ Len(tradeHistory) = 1

\* C28: the PaperBroker's trade history only grows at its end: a successful
\* openPosition and a closeLeg on an OPEN leg append exactly one record,
\* rejected and no-op calls append none, no step changes, reorders or
\* removes a record, and changing the array getTradeHistory returned leaves
\* the broker's history as it was.
C28_HistoryAppendOnly ==
    [][/\ Len(tradeHistory') >= Len(tradeHistory)
       /\ SubSeq(tradeHistory', 1, Len(tradeHistory)) = tradeHistory
       /\ \A t \in SignalTypes, p \in EntryPrices, a \in CycleATRs :
             PaperOpenPosition(t, p, a) =>
                Len(tradeHistory') =
                   Len(tradeHistory) + (IF last'.ret = "legs" THEN 1 ELSE 0)
       /\ last'.op = "closeLeg" =>
             \A l \in CloseInputs, p \in Prices :
                PaperCloseLegCall(l, p) =>
                   Len(tradeHistory') =
                      Len(tradeHistory) + (IF l.status = "OPEN" THEN 1 ELSE 0)
       /\ GetTradeHistory => called'.list = tradeHistory /\ UNCHANGED tradeHistory
       /\ \A m \in Mutations : MutateReturned(m) => UNCHANGED tradeHistory]_vars

\* The caller has emptied the array it got while the broker's history
\* holds the records of an open and of a close.
C28_Witness ==
    /\ called.op = "getTradeHistory"
    /\ called.list = <<>>
    /\ Len(tradeHistory) = 2
    /\ tradeHistory[1].action = "OPEN_POSITION"
    /\ tradeHistory[2].action # "OPEN_POSITION"

\* C26: PaperBroker slippage always worsens the trader's price.  For every
\* slippageBps >= 0 a buy is priced at reference * (1 + slippageBps/10000),
\* never below the reference, and a sell at reference * (1 - slippageBps/10000),
\* never above it: for applySlippage itself and for every fill in the trade
\* history, whose reference price is the candle close (price and slippage of
\* the record give it back).
SlippageAsStated(ref, isBuy, value) ==
    IF isBuy
    THEN value * 10000 = ref * (10000 + config.slippageBps) /\ value >= ref
    ELSE value * 10000 = ref * (10000 - config.slippageBps) /\ value <= ref

C26_SlippageWorsens ==
    /\ config.slippageBps >= 0
    /\ called.op = "applySlippage" =>
          SlippageAsStated(called.price, called.isBuy, called.value)
    /\ \A i \in 1..Len(tradeHistory) :
          LET h == tradeHistory[i]
          IN  IF h.action = "OPEN_POSITION"
              THEN SlippageAsStated(h.price - h.slippage, TRUE, h.price)
              ELSE SlippageAsStated(h.price + h.slippage, FALSE, h.price)

\* A buy and a later sell have both filled with slippage above zero.
C26_Witness ==
    /\ config.slippageBps > 0
    /\ \E i, j \in 1..Len(tradeHistory) :
          /\ tradeHistory[i].action = "OPEN_POSITION"
          /\ tradeHistory[i].slippage > 0
          /\ tradeHistory[j].action # "OPEN_POSITION"
          /\ tradeHistory[j].slippage > 0

\* C25: a leg whose close did not execute in the LiveBroker is not returned
\* CLOSED by updateAndClosePositions or trimRunners.  Every leg one of the
\* two moves from OPEN to CLOSED has therefore had its swap sent: the step
\* records at least one submission per such leg.
C25_FailedCloseStaysOpen ==
    [][(/\ broker = "live"
        /\ last'.op \in {"updateAndClosePositions", "trimRunners"}
        /\ JustClosed # {})
       => last'.calls.send >= Cardinality(JustClosed)]_vars

\* C29: the mint-decimals cache makes the on-chain lookup happen at most once
\* per mint: whatever getTokenBalance calls are made on a mint, one after the
\* other or overlapping, getMint is called at most once for it and every call
\* that converts a balance uses the same decimals.
C29_OneLookupPerMint ==
    \A m \in BalanceMints :
       /\ balanceCalls.getMint[m] <= 1
       /\ \A i, j \in 1..Len(balanceCalls.calls) :
             (/\ balanceCalls.calls[i].mint = m
              /\ balanceCalls.calls[j].mint = m
              /\ balanceCalls.calls[i].pc = "returned"
              /\ balanceCalls.calls[j].pc = "returned")
             => balanceCalls.calls[i].decimals = balanceCalls.calls[j].decimals

\* C30: persisted state is written atomically and concurrent writers of one
\* state file exclude each other.  With two StateManagers saving to the same
\* path, no save fails because of the other writer, no writer renames a temp
\* file holding the other writer's content, and the state file, once it
\* exists, always holds one complete snapshot: that of the save that
\* completed last.
C30_SavesExcludeEachOther ==
    /\ \A w \in Writers : ~files.writers[w].failed
    /\ \A w \in Writers : ~files.writers[w].renamedOther
    /\ files.filePath # 0 =>
          /\ files.inodes[files.filePath] # NoSnapshot
          /\ files.inodes[files.filePath] = files.completedLast

\* C31: LiveBroker.openPosition rejects the trade (null, no quote requested,
\* no transaction submitted, no leg) whenever the wallet's USDC balance is
\* below 2 * tradeLegUsdc + minUsdcReserve and whenever the balance query
\* fails; it goes on to the quote step only with at least that balance.
C31_BalanceGate ==
    [][flow.pc = "canTrade" =>
       \A b \in WalletBalances :
          StepCanTrade(b) =>
             IF b.failed \/ b.usdc < 2 * tradeLegUsdc + minUsdcReserve
             THEN /\ flow'.pc = "idle"
                  /\ last'.op = "openPosition"
                  /\ last'.ret = "null"
                  /\ last'.calls.quote = 0
                  /\ last'.calls.send = 0
                  /\ UNCHANGED <<legs, nextId>>
             ELSE /\ flow'.pc = "getQuote"
                  /\ UNCHANGED <<legs, nextId, last>>]_vars

\* An open has just been rejected at the balance check, after an earlier
\* one passed it and created legs.
C31_Witness ==
    /\ last.op = "openPosition"
    /\ last.ret = "null"
    /\ last.calls.balance = 1
    /\ last.calls.quote = 0
    /\ flow.pc = "idle"
    /\ legs # <<>>

\* The indices of the batch the gate admits in the state.
Admitted(signals) ==
    {i \in 1..Len(signals) :
        /\ signals[i].type = "LONG"
        /\ canAssetTrade(state, signals[i].asset, managerConfig,
                         signals[i].timestamp).canTrade}

\* C32: filterTradableSignals returns, in input order, exactly the signals of
\* the batch that are LONG and that canAssetTrade allows for the signal's
\* asset at the signal's timestamp; SHORT, NONE and denied LONG signals are
\* left out, and the risk state is the same after the call.
C32_FilterExact ==
    /\ [](called.op = "filterTradableSignals" =>
            /\ Len(called.list) = Cardinality(Admitted(called.args))
            /\ \A k \in 1..Len(called.list) :
                  \E i \in Admitted(called.args) :
                     /\ called.list[k] = called.args[i]
                     /\ Cardinality({j \in Admitted(called.args) : j < i}) = k - 1)
    /\ [][called'.op = "filterTradableSignals" => state' = state]_vars

\* The filter has returned one of two LONG signals: the other was denied.
C32_Witness ==
    /\ called.op = "filterTradableSignals"
    /\ Len(called.args) = 2
    /\ called.args[1].type = "LONG"
    /\ called.args[2].type = "LONG"
    /\ Len(called.list) = 1
    /\ called.list[1] = called.args[2]

\* C37: when positions are opened only for signals the risk gate admitted,
\* the caps hold in every reachable state: after a position has been opened
\* for every signal one filterTradableSignals call returned, no asset has
\* more than maxPositionsPerAsset open positions and all assets together have
\* at most maxTotalPositions, also for a batch with several LONG signals.
C37_CapsHold ==
    /\ \A i \in 1..Len(state) :
          getOpenPositionCountForAsset(state[i]) <= managerConfig.maxPositionsPerAsset
    /\ getTotalOpenPositions(state) <= managerConfig.maxTotalPositions

\* C33: the retry backoff of sendAndConfirmVersionedTransaction is
\* exponential: the wait before retry k+1 is twice the wait before retry k
\* (2000, 4000, 8000, ... ms), and no wait follows the last failed attempt.
C33_BackoffDoubles ==
    called.op = "sendAndConfirmVersionedTransaction" =>
       /\ \A k \in 1..Len(called.list) :
             called.list[k].slept > 0 =>
                called.list[k].slept = IF k = 1 THEN 2000
                                       ELSE 2 * called.list[k - 1].slept
       /\ (called.pc = "returned" /\ ~called.success) =>
             called.list[Len(called.list)].slept = 0

\* C36: whenever LiveBroker.openPosition returns null no buy swap has taken
\* effect: no transaction of the call was sent and left unconfirmed, since
\* such a transaction can still be included on-chain.
C36_NullMeansNoSwap ==
    (/\ called.op = "sendAndConfirmVersionedTransaction"
     /\ called.caller = "openPosition"
     /\ called.pc = "returned"
     /\ last.op = "openPosition"
     /\ last.ret = "null")
    => \A k \in 1..Len(called.list) : called.list[k].outcome # "confirm throws"

\* The TP leg of leg i's position is OPEN in the list.
OwnTPOpen(ls, i) ==
    \E j \in 1..Len(ls) :
       /\ ls[j].type = "TP"
       /\ ls[j].positionId = ls[i].positionId
       /\ ls[j].status = "OPEN"

\* C34: updatePositions closes a RUNNER leg only through its trailing stop.
\* A RUNNER with no trailing stop stays OPEN at every price while its TP leg
\* has not closed; a RUNNER with an active stop is closed exactly when
\* currentPrice <= its refreshed trailingStop, and every RUNNER the call
\* closes has closePrice equal to that trailingStop and reason
\* "Trailing stop hit".
C34_RunnerClosesByStopOnly ==
    called.op = "updatePositions" =>
       \A i \in 1..Len(legs) :
          (called.args[i].type = "RUNNER" /\ called.args[i].status = "OPEN") =>
             /\ (called.args[i].trailingStop = undefined /\ OwnTPOpen(legs, i))
                   => legs[i].status = "OPEN"
             /\ called.args[i].trailingStop # undefined
                   => (legs[i].status = "CLOSED" <=> called.price <= legs[i].trailingStop)
             /\ legs[i].status = "CLOSED"
                   => /\ legs[i].closePrice = legs[i].trailingStop
                      /\ legs[i].closeReason = "Trailing stop hit"
                      /\ called.price <= legs[i].trailingStop

\* C40 as stated: a RUNNER leg's trailing stop never exceeds the highest
\* price observed for the leg, in every state reached through updatePositions
\* calls with any ATR values.
C40_StopBelowHighest ==
    \A i \in 1..Len(legs) :
       (legs[i].type = "RUNNER" /\ legs[i].trailingStop # undefined)
          => legs[i].trailingStop <= legs[i].highestPrice

\* C40: a RUNNER leg's trailing stop, once set, is at most the highest price
\* observed for the leg or else is the breakeven lock it was activated at,
\* entryPrice + breakEvenLockMultiplier * ATR of the activating call; a
\* runner closed by "Trailing stop hit" has one of the two as closePrice.
C40_StopBelowHighestOrLock ==
    \A i \in 1..Len(legs) :
       (legs[i].type = "RUNNER" /\ legs[i].trailingStop # undefined)
          => /\ \/ legs[i].trailingStop <= legs[i].highestPrice
                \/ \E a \in EngineATRs :
                      legs[i].trailingStop =
                         legs[i].entryPrice + Times(a, breakEvenLockMultiplier)
             /\ legs[i].closeReason = "Trailing stop hit"
                   => legs[i].closePrice = legs[i].trailingStop

\* A runner has been closed by its stop at a price above every price seen.
C40_Witness ==
    \E i \in 1..Len(legs) :
       /\ legs[i].type = "RUNNER"
       /\ legs[i].closeReason = "Trailing stop hit"
       /\ legs[i].closePrice > legs[i].highestPrice

\* C35: consecutiveLosses counts the recordTrade calls with negative pnl since
\* the latest recordTrade with pnl >= 0 or the latest reset(): a losing trade
\* adds one to it, any other trade and reset() set it to 0, and no other
\* operation or day rollover changes it; each recordTrade adds 1 to
\* tradesExecutedToday and pnl to dailyPnl.
C35_LossStreakCounts ==
    [][/\ cbOut'.op = "recordTrade" =>
            \E pnl \in Pnls :
               /\ cb'.dailyPnl = cb.dailyPnl + pnl
               /\ cb'.tradesExecutedToday = cb.tradesExecutedToday + 1
               /\ cb'.consecutiveLosses = (IF pnl < 0 THEN cb.consecutiveLosses + 1 ELSE 0)
       /\ cbOut'.op = "reset" => cb'.consecutiveLosses = 0
       /\ cbOut'.op \notin {"recordTrade", "reset"} =>
            cb'.consecutiveLosses = cb.consecutiveLosses]_vars

\* A streak of two losses spans a day rollover: the second loss is the first
\* trade of the new day.
C35_Witness ==
    /\ cbOut.op = "recordTrade"
    /\ cb.resetDate = 1
    /\ cb.tradesExecutedToday = 1
    /\ cb.consecutiveLosses = 2

\* C39: reset() sets tripped to false, clears tripReason and sets
\* consecutiveLosses to 0, and leaves dailyPnl, tradesExecutedToday,
\* lastTradeTimestamp and resetDate as they were; the canTrade call that
\* follows a reset denies exactly when the daily trade limit or the cooldown
\* denies on the counters the reset has kept.
C39_ResetFrame ==
    [][/\ cbOut'.op = "reset" =>
            /\ ~cb'.tripped /\ cb'.tripReason = NoReason /\ cb'.consecutiveLosses = 0
            /\ cb'.dailyPnl = cb.dailyPnl
            /\ cb'.tradesExecutedToday = cb.tradesExecutedToday
            /\ cb'.lastTradeTimestamp = cb.lastTradeTimestamp
            /\ cb'.resetDate = cb.resetDate
       /\ (cbOut.op = "reset" /\ cbOut'.op = "canTrade") =>
            LET trades == IF dateOf(now) # cb.resetDate THEN 0 ELSE cb.tradesExecutedToday
                limit == trades >= cbConfig.maxDailyTrades
                cooldown == /\ cb.lastTradeTimestamp > 0
                            /\ now - cb.lastTradeTimestamp < cbConfig.minTimeBetweenTradesMs
            IN  /\ cbOut'.allowed <=> ~(limit \/ cooldown)
                /\ limit => cbOut'.reason.kind = "Daily trade limit reached"
                /\ (~limit /\ cooldown) => cbOut'.reason.kind = "Cooldown period active"]_vars

\* reset() has cleared a breaker that the day's losses had tripped, on a day
\* whose trade limit is used up and with the cooldown of the last trade still
\* running.
C39_Witness ==
    /\ cbOut.op = "reset"
    /\ ~cb.tripped
    /\ cb.dailyPnl * 100 < (0 - cbConfig.maxDailyLossPct) * 400
    /\ dateOf(now) = cb.resetDate
    /\ cb.tradesExecutedToday >= cbConfig.maxDailyTrades
    /\ cb.lastTradeTimestamp > 0
    /\ now - cb.lastTradeTimestamp < cbConfig.minTimeBetweenTradesMs

\* Sum of the quantities of the legs of ls[i..] that are OPEN.
RECURSIVE openQuantity(_, _)
openQuantity(ls, i) ==
    IF i > Len(ls) THEN 0
    ELSE (IF ls[i].status = "OPEN" THEN ls[i].quantity ELSE 0) + openQuantity(ls, i + 1)

\* C38: the PaperBroker's ledger matches the legs it manages: after any
\* sequence of openPosition, updateAndClosePositions and trimRunners calls the
\* base-asset balance is the initial balance plus the quantities of the legs
\* that are still OPEN, and the quote-asset balance is not negative.
C38_LedgerMatchesLegs ==
    broker = "paper" =>
        /\ account.btcBalance = initialBtcBalance + openQuantity(legs, 1)
        /\ account.usdcBalance >= 0

\* The quote-asset half of C38 on its own.
QuoteBalanceNotNegative == broker = "paper" => account.usdcBalance >= 0

====
